---- MODULE Spec2Model ----
(***************************************************************************)
(* Clip candidate generation, scoring and selection of clipforge           *)
(* (src/clipforge/clip_selector.py, sliding window, scores in [0,1]) and   *)
(* clipcraft (src/clipcraft/clip_selector.py, boundary pairs, scores       *)
(* documented as 0-100).                                                   *)
(*                                                                         *)
(* Times are whole seconds.  Python floats are modelled as exact rationals *)
(* [n, d] in lowest terms; the weight literals 0.30, 0.25, 0.20 are the    *)
(* rationals 30/100, 25/100, 20/100.  A text is a sequence of one-letter   *)
(* strings.                                                                *)
(***************************************************************************)
EXTENDS Integers, Sequences, FiniteSets, TLC

\* ------------------------------------------------------------------------
\* Bounds of the model
\* ------------------------------------------------------------------------
MaxWords == 3
MaxCount == 2
MaxSegments == 3

\* ------------------------------------------------------------------------
\* Program constants
\* ------------------------------------------------------------------------
StepSec == 5
MinGap == 2

\* ------------------------------------------------------------------------
\* Exact rationals standing for Python floats
\* ------------------------------------------------------------------------
Abs(x) == IF x < 0 THEN -x ELSE x

RECURSIVE GCD(_, _)
GCD(a, b) == IF b = 0 THEN a ELSE GCD(b, a % b)

Rat(n, d) ==
    LET g == GCD(Abs(n), d)
    IN  [n |-> n \div g, d |-> d \div g]

RatInt(k) == [n |-> k, d |-> 1]
RatAdd(x, y) == Rat(x.n * y.d + y.n * x.d, x.d * y.d)
RatSub(x, y) == Rat(x.n * y.d - y.n * x.d, x.d * y.d)
RatMul(x, y) == Rat(x.n * y.n, x.d * y.d)
RatNeg(x) == [n |-> -x.n, d |-> x.d]
RatLe(x, y) == x.n * y.d <= y.n * x.d
RatLt(x, y) == x.n * y.d < y.n * x.d
RatMin(x, y) == IF RatLt(y, x) THEN y ELSE x
RatMax(x, y) == IF RatLt(x, y) THEN y ELSE x

\* ------------------------------------------------------------------------
\* Text: str methods used by the selectors
\* ------------------------------------------------------------------------
UpperLetters == {"H", "G", "O"}
TerminalPunct == {".", "!", "?"}

IsUpper(c) == c \in UpperLetters

LowerChar(c) ==
    CASE c = "H" -> "h"
      [] c = "G" -> "g"
      [] c = "O" -> "o"
      [] OTHER -> c

Lower(t) == [i \in 1..Len(t) |-> LowerChar(t[i])]

RECURSIVE LStrip(_)
LStrip(t) == IF Len(t) > 0 /\ t[1] = " " THEN LStrip(Tail(t)) ELSE t

RECURSIVE RStrip(_)
RStrip(t) ==
    IF Len(t) > 0 /\ t[Len(t)] = " " THEN RStrip(SubSeq(t, 1, Len(t) - 1)) ELSE t

Strip(t) == LStrip(RStrip(t))

CountChar(t, c) == Cardinality({i \in 1..Len(t) : t[i] = c})

Contains(t, sub) ==
    \E i \in 0..(Len(t) - Len(sub)) : SubSeq(t, i + 1, i + Len(sub)) = sub

\* " ".join of the texts of ws[lo..hi], by halves.
RECURSIVE JoinRange(_, _, _)
JoinRange(ws, lo, hi) ==
    IF lo > hi THEN <<>>
    ELSE IF lo = hi THEN ws[lo].text
    ELSE LET mid == (lo + hi) \div 2
         IN  JoinRange(ws, lo, mid) \o <<" ">> \o JoinRange(ws, mid + 1, hi)

JoinText(ws) == JoinRange(ws, 1, Len(ws))

\* str.split(): the maximal runs of non-blank letters, left to right.
Split(t) ==
    LET starts == {i \in 1..Len(t) : t[i] /= " " /\ (i = 1 \/ t[i - 1] = " ")}
        EndOf(i) == CHOOSE j \in i..Len(t) :
                        /\ \A k \in i..j : t[k] /= " "
                        /\ (j = Len(t) \/ t[j + 1] = " ")
    IN  [k \in 1..Cardinality(starts) |->
            LET i == CHOOSE x \in starts : Cardinality({y \in starts : y < x}) = k - 1
            IN  SubSeq(t, i, EndOf(i))]

SentenceEnd(t) == Len(t) > 0 /\ t[Len(t)] \in TerminalPunct

\* ------------------------------------------------------------------------
\* Sorting: Python's sorted / list.sort are stable
\* ------------------------------------------------------------------------
\* Rank of the i-th key in ascending stable order: the smaller keys plus the
\* equal ones before it.
KeyRank(keys, i) ==
    Cardinality({j \in 1..Len(keys) :
        RatLt(keys[j], keys[i]) \/ (~RatLt(keys[i], keys[j]) /\ j < i)}) + 1

\* sorted(s, key=...) for the sequence of the elements' keys.
SortByKey(s, keys) ==
    [k \in 1..Len(s) |-> s[CHOOSE i \in 1..Len(s) : KeyRank(keys, i) = k]]

\* sorted(s, key=lambda c: c.score, reverse=True)
SortByScoreDesc(s) == SortByKey(s, [i \in 1..Len(s) |-> RatNeg(s[i].score)])

Take(s, k) == SubSeq(s, 1, IF k < Len(s) THEN k ELSE Len(s))

\* ------------------------------------------------------------------------
\* clipforge: Segment
\* ------------------------------------------------------------------------
Segment(ws) == [words |-> ws, score |-> RatInt(0), label |-> ""]

SegStart(seg) == IF seg.words /= <<>> THEN seg.words[1].start ELSE 0
SegEnd(seg) == IF seg.words /= <<>> THEN seg.words[Len(seg.words)].end ELSE 0
SegDuration(seg) == SegEnd(seg) - SegStart(seg)
SegText(seg) == JoinText(seg.words)

\* ------------------------------------------------------------------------
\* clipforge: scoring helpers
\* ------------------------------------------------------------------------
\* 0.5 for a capitalised first word plus 0.5 for a sentence-final last word.
SentenceBoundaryScore(seg) ==
    LET first_cap == /\ seg.words /= <<>>
                     /\ seg.words[1].text /= <<>>
                     /\ IsUpper(seg.words[1].text[1])
        ends_ok == /\ seg.words /= <<>>
                   /\ SentenceEnd(seg.words[Len(seg.words)].text)
    IN  RatAdd(IF first_cap THEN Rat(1, 2) ELSE RatInt(0),
               IF ends_ok THEN Rat(1, 2) ELSE RatInt(0))

SpeechRateScore(seg) ==
    IF SegDuration(seg) <= 0 THEN RatInt(0)
    ELSE RatMin(Rat(Len(seg.words), 4 * SegDuration(seg)), RatInt(1))

RECURSIVE SumSeq(_, _)
SumSeq(s, i) == IF i > Len(s) THEN 0 ELSE s[i] + SumSeq(s, i + 1)

MaxOfSeq(s) == CHOOSE m \in {s[i] : i \in 1..Len(s)} : \A i \in 1..Len(s) : s[i] <= m

SilencePenalty(seg) ==
    IF Len(seg.words) < 2 THEN RatInt(0)
    ELSE LET gaps == [i \in 1..(Len(seg.words) - 1) |->
                         seg.words[i + 1].start - seg.words[i].end]
             max_gap == MaxOfSeq(gaps)
             sum_gap == SumSeq(gaps, 1)
         IN  RatAdd(IF max_gap > 2 THEN Rat(3, 10) ELSE RatInt(0),
                    \* avg_gap > 0.8
                    IF 5 * sum_gap > 4 * Len(gaps) THEN Rat(2, 10) ELSE RatInt(0))

\* As KeywordScore, the keywords compared as written.
KeywordScoreCaseSensitive(seg, kws) ==
    IF kws = <<>> THEN RatInt(0)
    ELSE LET hits == Cardinality({i \in 1..Len(kws) : Contains(SegText(seg), kws[i])})
         IN  RatMin(Rat(hits, IF Len(kws) > 1 THEN Len(kws) ELSE 1), RatInt(1))

KeywordScore(seg, kws) ==
    IF kws = <<>> THEN RatInt(0)
    ELSE LET text_lower == Lower(SegText(seg))
             hits == Cardinality({i \in 1..Len(kws) : Contains(text_lower, Lower(kws[i]))})
         IN  RatMin(Rat(hits, IF Len(kws) > 1 THEN Len(kws) ELSE 1), RatInt(1))

WeightNames == {"boundary", "rate", "silence", "keyword"}

DefaultWeights ==
    [boundary |-> Rat(30, 100), rate |-> Rat(25, 100),
     silence |-> Rat(20, 100), keyword |-> Rat(25, 100)]

\* weights=None and weights={} are both falsy: the empty mapping stands for both.
NoWeights == [k \in {} |-> RatInt(0)]

NoResult == [raised |-> "", value |-> RatInt(0)]

\* The mapping score_segment reads: `weights or {defaults}`.
EffectiveWeights(weights) == IF DOMAIN weights = {} THEN DefaultWeights ELSE weights

\* As ScoreSegment, the weighted sum returned as it is.
ScoreSegmentUnclamped(seg, kws, weights) ==
    LET w == EffectiveWeights(weights)
    IN  IF ~(WeightNames \subseteq DOMAIN w)
        THEN [raised |-> "KeyError", value |-> RatInt(0)]
        ELSE [raised |-> "",
              value |->
                  RatAdd(
                      RatSub(
                          RatAdd(RatMul(w["boundary"], SentenceBoundaryScore(seg)),
                                 RatMul(w["rate"], SpeechRateScore(seg))),
                          RatMul(w["silence"], SilencePenalty(seg))),
                      RatMul(w["keyword"], KeywordScore(seg, kws)))]

\* As ScoreSegment, the rate words / duration taken without the guard on a
\* duration of zero.
ScoreSegmentRateUnguarded(seg, kws, weights) ==
    LET w == EffectiveWeights(weights)
    IN  IF ~(WeightNames \subseteq DOMAIN w)
        THEN [raised |-> "KeyError", value |-> RatInt(0)]
        ELSE IF SegDuration(seg) = 0
        THEN [raised |-> "ZeroDivisionError", value |-> RatInt(0)]
        ELSE LET raw ==
                    RatAdd(
                        RatSub(
                            RatAdd(RatMul(w["boundary"], SentenceBoundaryScore(seg)),
                                   RatMul(w["rate"], SpeechRateScore(seg))),
                            RatMul(w["silence"], SilencePenalty(seg))),
                        RatMul(w["keyword"], KeywordScore(seg, kws)))
             IN  [raised |-> "", value |-> RatMax(RatInt(0), RatMin(raw, RatInt(1)))]

\* score_segment: [raised |-> "" or the exception, value |-> the score].
ScoreSegment(seg, kws, weights) ==
    LET w == EffectiveWeights(weights)
    IN  IF ~(WeightNames \subseteq DOMAIN w)
        THEN [raised |-> "KeyError", value |-> RatInt(0)]
        ELSE LET raw ==
                    RatAdd(
                        RatSub(
                            RatAdd(RatMul(w["boundary"], SentenceBoundaryScore(seg)),
                                   RatMul(w["rate"], SpeechRateScore(seg))),
                            RatMul(w["silence"], SilencePenalty(seg))),
                        RatMul(w["keyword"], KeywordScore(seg, kws)))
             IN  [raised |-> "", value |-> RatMax(RatInt(0), RatMin(raw, RatInt(1)))]

\* ------------------------------------------------------------------------
\* clipforge: windowing and selection
\* ------------------------------------------------------------------------
RECURSIVE SnapFrom(_, _)
SnapFrom(ws, i) ==
    IF i < 1 THEN ws
    ELSE IF SentenceEnd(ws[i].text) THEN SubSeq(ws, 1, i)
    ELSE SnapFrom(ws, i - 1)

\* As SnapToSentenceEnd, the window handed back as it came.
SnapToSentenceEndKeepsAll(ws) == ws

SnapToSentenceEnd(ws) == SnapFrom(ws, Len(ws))

\* As WindowCandidate, the snapped window taken without a second look at
\* its span.
WindowCandidateSnapUnchecked(ws, start_time, min_dur, max_dur) ==
    LET end_time == start_time + max_dur
        window_words == SelectSeq(ws, LAMBDA w : w.start >= start_time /\ w.end <= end_time)
    IN  IF /\ window_words /= <<>>
           /\ window_words[Len(window_words)].end - window_words[1].start >= min_dur
        THEN <<Segment(SnapToSentenceEnd(window_words))>>
        ELSE <<>>

\* As WindowCandidate, a window emitted only when it could be snapped to a
\* sentence end.
WindowCandidateSnappedOnly(ws, start_time, min_dur, max_dur) ==
    LET end_time == start_time + max_dur
        window_words == SelectSeq(ws, LAMBDA w : w.start >= start_time /\ w.end <= end_time)
    IN  IF /\ window_words /= <<>>
           /\ window_words[Len(window_words)].end - window_words[1].start >= min_dur
        THEN LET snapped == SnapToSentenceEnd(window_words)
             IN  IF /\ snapped /= <<>>
                    /\ SentenceEnd(snapped[Len(snapped)].text)
                    /\ snapped[Len(snapped)].end - snapped[1].start >= min_dur
                 THEN <<Segment(snapped)>>
                 ELSE <<>>
        ELSE <<>>

\* One pass of the while loop of _build_candidates: the segments the window
\* at start_time appends.
WindowCandidate(ws, start_time, min_dur, max_dur) ==
    LET end_time == start_time + max_dur
        window_words == SelectSeq(ws, LAMBDA w : w.start >= start_time /\ w.end <= end_time)
    IN  IF /\ window_words /= <<>>
           /\ window_words[Len(window_words)].end - window_words[1].start >= min_dur
        THEN LET snapped == SnapToSentenceEnd(window_words)
             IN  IF /\ snapped /= <<>>
                    /\ snapped[Len(snapped)].end - snapped[1].start >= min_dur
                 THEN <<Segment(snapped)>>
                 ELSE <<Segment(window_words)>>
        ELSE <<>>

RECURSIVE BuildFrom(_, _, _, _)
BuildFrom(ws, start_time, min_dur, max_dur) ==
    IF start_time + min_dur <= ws[Len(ws)].end
    THEN WindowCandidate(ws, start_time, min_dur, max_dur)
            \o BuildFrom(ws, start_time + StepSec, min_dur, max_dur)
    ELSE <<>>

BuildCandidates(ws, min_dur, max_dur) ==
    IF ws = <<>> THEN <<>> ELSE BuildFrom(ws, ws[1].start, min_dur, max_dur)

\* sorted(selected, key=lambda s: s.start)
SortBySegStart(s) == SortByKey(s, [i \in 1..Len(s) |-> RatInt(SegStart(s[i]))])

\* As SegCompatible, without the minimum gap.
SegCompatibleNoGap(seg, s) ==
    SegEnd(seg) <= SegStart(s) \/ SegStart(seg) >= SegEnd(s)

SegCompatible(seg, s) ==
    SegEnd(seg) + MinGap <= SegStart(s) \/ SegStart(seg) >= SegEnd(s) + MinGap

RECURSIVE ForgeWalk(_, _, _)
ForgeWalk(sorted, i, sel) ==
    IF i > Len(sorted) THEN sel
    ELSE IF \A k \in 1..Len(sel) : SegCompatible(sorted[i], sel[k])
         THEN ForgeWalk(sorted, i + 1, Append(sel, sorted[i]))
         ELSE ForgeWalk(sorted, i + 1, sel)

\* As RemoveOverlapping, the selection returned in the order of acceptance.
RemoveOverlappingUnsorted(segments) ==
    ForgeWalk(SortByScoreDesc(segments), 1, <<>>)

RemoveOverlapping(segments) ==
    SortBySegStart(ForgeWalk(SortByScoreDesc(segments), 1, <<>>))

\* f"clip_{i:02d}"
Digits2(i) == IF i < 10 THEN "0" \o ToString(i) ELSE ToString(i)
ClipLabel(i) == "clip_" \o Digits2(i)

\* As ForgeTop, without the [:num_clips] slice.
ForgeTopUntruncated(cands, n) ==
    LET top == RemoveOverlapping(cands)
    IN  [i \in 1..Len(top) |-> [top[i] EXCEPT !.label = ClipLabel(i)]]

\* select_clips after scoring: top = _remove_overlapping(candidates)[:num_clips],
\* then the labels.
ForgeTop(cands, n) ==
    LET top == Take(RemoveOverlapping(cands), n)
    IN  [i \in 1..Len(top) |-> [top[i] EXCEPT !.label = ClipLabel(i)]]

\* ------------------------------------------------------------------------
\* clipcraft: boundaries, candidates, score, greedy selection
\* ------------------------------------------------------------------------
Clip(start, end, text, ws) ==
    [start |-> start, end |-> end, text |-> text, words |-> ws, score |-> RatInt(0)]

ClipDuration(clip) == clip.end - clip.start

\* sorted(set(boundaries)) as the increasing sequence of a set of indices.
RECURSIVE SortedSeqOfSet(_)
SortedSeqOfSet(S) ==
    IF S = {} THEN <<>>
    ELSE LET m == CHOOSE x \in S : \A y \in S : x <= y
         IN  <<m>> \o SortedSeqOfSet(S \ {m})

\* As FindSentenceBoundaries, the text taken without rstrip().
FindSentenceBoundariesUntrimmed(ws) ==
    SortedSeqOfSet(
        {0}
        \cup {i + 1 : i \in {j \in 0..(Len(ws) - 1) :
                  LET text == ws[j + 1].text
                  IN  text /= <<>> /\ text[Len(text)] \in TerminalPunct
                      /\ j + 1 < Len(ws)}}
        \cup {Len(ws)})

\* Indices are 0-based as in the source: boundary k is the word ws[k + 1].
FindSentenceBoundaries(ws) ==
    SortedSeqOfSet(
        {0}
        \cup {i + 1 : i \in {j \in 0..(Len(ws) - 1) :
                  LET text == RStrip(ws[j + 1].text)
                  IN  text /= <<>> /\ text[Len(text)] \in TerminalPunct
                      /\ j + 1 < Len(ws)}}
        \cup {Len(ws)})

\* As CraftInner, without the test against min_dur.
RECURSIVE CraftInnerKeepsShort(_, _, _, _, _, _)
CraftInnerKeepsShort(ws, bounds, s_idx, j, min_dur, max_dur) ==
    IF j > Len(bounds) THEN <<>>
    ELSE LET e_idx == bounds[j]
         IN  IF e_idx > Len(ws) THEN <<>>
             ELSE LET start_t == ws[s_idx + 1].start
                      last == IF e_idx - 1 < Len(ws) - 1 THEN e_idx - 1 ELSE Len(ws) - 1
                      end_t == ws[(IF last < 0 THEN last + Len(ws) ELSE last) + 1].end
                      dur == end_t - start_t
                  IN  IF dur > max_dur THEN <<>>
                      ELSE LET clip_words == SubSeq(ws, s_idx + 1, e_idx)
                           IN  <<Clip(start_t, end_t, JoinText(clip_words), clip_words)>>
                               \o CraftInnerKeepsShort(ws, bounds, s_idx, j + 1, min_dur, max_dur)

\* As CraftInner, the loop left at a pair shorter than min_dur as well.
RECURSIVE CraftInnerStopsAtShort(_, _, _, _, _, _)
CraftInnerStopsAtShort(ws, bounds, s_idx, j, min_dur, max_dur) ==
    IF j > Len(bounds) THEN <<>>
    ELSE LET e_idx == bounds[j]
         IN  IF e_idx > Len(ws) THEN <<>>
             ELSE LET start_t == ws[s_idx + 1].start
                      last == IF e_idx - 1 < Len(ws) - 1 THEN e_idx - 1 ELSE Len(ws) - 1
                      end_t == ws[(IF last < 0 THEN last + Len(ws) ELSE last) + 1].end
                      dur == end_t - start_t
                  IN  IF dur < min_dur \/ dur > max_dur THEN <<>>
                      ELSE LET clip_words == SubSeq(ws, s_idx + 1, e_idx)
                           IN  <<Clip(start_t, end_t, JoinText(clip_words), clip_words)>>
                               \o CraftInnerStopsAtShort(ws, bounds, s_idx, j + 1, min_dur, max_dur)

\* The inner loop over boundaries[i + 1:] from position j on.
RECURSIVE CraftInner(_, _, _, _, _, _)
CraftInner(ws, bounds, s_idx, j, min_dur, max_dur) ==
    IF j > Len(bounds) THEN <<>>
    ELSE LET e_idx == bounds[j]
         IN  IF e_idx > Len(ws) THEN <<>>
             ELSE LET start_t == ws[s_idx + 1].start
                      last == IF e_idx - 1 < Len(ws) - 1 THEN e_idx - 1 ELSE Len(ws) - 1
                      \* words[-1] when e_idx = 0
                      end_t == ws[(IF last < 0 THEN last + Len(ws) ELSE last) + 1].end
                      dur == end_t - start_t
                  IN  IF dur < min_dur
                      THEN CraftInner(ws, bounds, s_idx, j + 1, min_dur, max_dur)
                      ELSE IF dur > max_dur THEN <<>>
                      ELSE LET clip_words == SubSeq(ws, s_idx + 1, e_idx)
                           IN  <<Clip(start_t, end_t, JoinText(clip_words), clip_words)>>
                               \o CraftInner(ws, bounds, s_idx, j + 1, min_dur, max_dur)

RECURSIVE CraftOuter(_, _, _, _, _)
CraftOuter(ws, bounds, i, min_dur, max_dur) ==
    IF i > Len(bounds) THEN <<>>
    ELSE IF bounds[i] >= Len(ws) THEN <<>>
    ELSE CraftInner(ws, bounds, bounds[i], i + 1, min_dur, max_dur)
            \o CraftOuter(ws, bounds, i + 1, min_dur, max_dur)

GenerateCandidates(ws, bounds, min_dur, max_dur) ==
    CraftOuter(ws, bounds, 1, min_dur, max_dur)

\* The largest pause between consecutive words, 0.0 when none is positive.
MaxGap(ws) ==
    LET gaps == {0} \cup {ws[j].start - ws[j - 1].end : j \in 2..Len(ws)}
    IN  CHOOSE m \in gaps : \A g \in gaps : g <= m

\* As CompletenessPoints, the 25 points given only for both sides together.
CompletenessPointsBothOrNothing(clip) ==
    IF /\ clip.text /= <<>> /\ IsUpper(clip.text[1])
       /\ LET stripped == RStrip(clip.text)
          IN  stripped /= <<>> /\ stripped[Len(stripped)] \in TerminalPunct
    THEN 25 ELSE 0

\* The five contributions of _score_clip.
CompletenessPoints(clip) ==
    (IF clip.text /= <<>> /\ IsUpper(clip.text[1]) THEN 10 ELSE 0)
    + (LET stripped == RStrip(clip.text)
       IN  IF stripped /= <<>> /\ stripped[Len(stripped)] \in TerminalPunct THEN 15 ELSE 0)

DensityPoints(clip) ==
    LET n == Len(clip.words)
        d == ClipDuration(clip)
    IN  IF d > 0
        THEN IF 2 * d <= n /\ 2 * n <= 7 * d THEN 20          \* 2.0 <= wps <= 3.5
             ELSE IF 3 * d <= 2 * n /\ n <= 4 * d THEN 12     \* 1.5 <= wps <= 4.0
             ELSE IF 2 * n > d THEN 5                         \* wps > 0.5
             ELSE 0
        ELSE 0

EngagementPoints(clip) ==
    LET q == CountChar(clip.text, "?") * 8
        e == CountChar(clip.text, "!") * 5
        words_list == Split(Lower(clip.text))
        total == IF Len(words_list) > 1 THEN Len(words_list) ELSE 1
        uniq == Cardinality({words_list[i] : i \in 1..Len(words_list)})
    IN  RatAdd(RatInt((IF q < 16 THEN q ELSE 16) + (IF e < 10 THEN e ELSE 10)),
               RatMul(Rat(uniq, total), RatInt(10)))

DurationPoints(clip) ==
    LET d == ClipDuration(clip)
    IN  IF 20 <= d /\ d <= 45 THEN 15
        ELSE IF 15 <= d /\ d <= 60 THEN 10
        ELSE 3

PausePoints(clip) ==
    LET max_gap == MaxGap(clip.words)
    IN  IF max_gap < 1 THEN 15
        ELSE IF max_gap < 2 THEN 10
        ELSE IF max_gap < 3 THEN 5
        ELSE 0

ScoreClip(clip) ==
    RatAdd(RatInt(CompletenessPoints(clip) + DensityPoints(clip)
                  + DurationPoints(clip) + PausePoints(clip)),
           EngagementPoints(clip))

Overlaps(a, b) == a.start < b.end /\ b.start < a.end

\* selected.sort(key=lambda c: c.start)
SortByClipStart(s) == SortByKey(s, [i \in 1..Len(s) |-> RatInt(s[i].start)])

\* As CraftWalk, the walk given up at the first overlapping candidate.
RECURSIVE CraftWalkStopsAtOverlap(_, _, _, _)
CraftWalkStopsAtOverlap(sorted, i, sel, count) ==
    IF i > Len(sorted) THEN sel
    ELSE IF Len(sel) >= count THEN sel
    ELSE IF ~(\E k \in 1..Len(sel) : Overlaps(sorted[i], sel[k]))
         THEN CraftWalkStopsAtOverlap(sorted, i + 1, Append(sel, sorted[i]), count)
         ELSE sel

RECURSIVE CraftWalk(_, _, _, _)
CraftWalk(sorted, i, sel, count) ==
    IF i > Len(sorted) THEN sel
    ELSE IF Len(sel) >= count THEN sel
    ELSE IF ~(\E k \in 1..Len(sel) : Overlaps(sorted[i], sel[k]))
         THEN CraftWalk(sorted, i + 1, Append(sel, sorted[i]), count)
         ELSE CraftWalk(sorted, i + 1, sel, count)

\* select_clips from candidates.sort to selected.sort.
CraftSelect(scored, count) ==
    SortByClipStart(CraftWalk(SortByScoreDesc(scored), 1, <<>>, count))

\* _fallback_selection: segment-level clips when no segment carries words.
RECURSIVE FallbackFrom(_, _, _, _, _, _)
FallbackFrom(segs, i, buf_text, buf_start, min_dur, max_dur) ==
    IF i > Len(segs) THEN <<>>
    ELSE LET seg == segs[i]
             start == IF buf_start = -1 THEN seg.start ELSE buf_start
             text == buf_text \o <<" ">> \o seg.text
             dur == seg.end - start
         IN  IF dur >= min_dur
             THEN (IF dur <= max_dur
                   THEN <<[Clip(start, seg.end, Strip(text), <<>>) EXCEPT
                              !.score = RatInt(dur)]>>
                   ELSE <<>>)
                  \o FallbackFrom(segs, i + 1, <<>>, -1, min_dur, max_dur)
             ELSE FallbackFrom(segs, i + 1, text, start, min_dur, max_dur)

FallbackSelection(segs, count, min_dur, max_dur) ==
    Take(SortByScoreDesc(FallbackFrom(segs, 1, <<>>, -1, min_dur, max_dur)), count)

\* ------------------------------------------------------------------------
\* Inputs
\* ------------------------------------------------------------------------
Hi == <<"H", "i", ".">>
Ok == <<"o", "k">>
No == <<"n", "o", "?">>
Go == <<"G", "o", "!">>
OkStop == <<"o", "k", ".">>
Texts == {Hi, Ok}
StartDeltas == {1, 5, 10}
WordDurs == {1, 4}

Word(text, start, end) == [text |-> text, start |-> start, end |-> end]

\* A word stream from per-word choices <<text, start delta, duration>>: the
\* first word starts at 0, each later one StartDelta after the one before it,
\* so start <= end and the starts are non-decreasing.
WordChoices == Texts \X StartDeltas \X WordDurs

RECURSIVE StartOf(_, _)
StartOf(c, i) == IF i = 1 THEN 0 ELSE StartOf(c, i - 1) + c[i][2]

StreamOf(c) ==
    [i \in 1..Len(c) |-> Word(c[i][1], StartOf(c, i), StartOf(c, i) + c[i][3])]

\* Wordless transcript segments from per-segment choices <<text, pause before
\* it, duration>>.
SegmentChoices == {Hi, Ok} \X {0, 1} \X {1, 4}

RECURSIVE SegStartOf(_, _)
SegStartOf(c, i) ==
    IF i = 1 THEN c[1][2] ELSE SegStartOf(c, i - 1) + c[i - 1][3] + c[i][2]

SegmentsOf(c) ==
    [i \in 1..Len(c) |->
        [start |-> SegStartOf(c, i), end |-> SegStartOf(c, i) + c[i][3],
         text |-> c[i][1], words |-> <<>>]]

\* (min_duration, max_duration) pairs, 0 < min <= max.
DurationRanges == {<<2, 3>>, <<1, 7>>}
KeywordLists == {<<>>, <<Ok>>}
ZeroWeights == [k \in WeightNames |-> RatInt(0)]
\* (keywords, weights) a run scores its candidates with: select_clips passes
\* no weights; the all-zero mapping is a caller scoring the candidates itself.
ScoreSettings == {<<<<>>, NoWeights>>, <<<<Ok>>, NoWeights>>, <<<<>>, ZeroWeights>>}

\* ------------------------------------------------------------------------
\* The selection run as a state machine
\* ------------------------------------------------------------------------
VARIABLES
    words,          \* the flattened word stream
    segments,       \* the transcript segments when none of them carries words
    impl,           \* which select_clips runs: "clipforge" or "clipcraft"
    min_duration, max_duration, num_clips, keywords, weights,
    candidates,     \* the candidate list, scored once pc = "scored"
    top,            \* what select_clips returns
    result,         \* what a direct call of score_segment / _score_clip gave
    pc              \* "start", "candidates", "scored", "selected", "fallback",
                    \* "raised"

selectorVars ==
    <<words, segments, impl, min_duration, max_duration, num_clips, keywords, weights,
      candidates, top, result, pc>>

\* The thread-based worker of the web application (src/web/worker.py).
MaxJobs == 3
MaxWorkers == 1
Jobs == 1..MaxJobs
\* As PoolThreads, the pool built with one thread more.
PoolThreadsOneMore == 1..(MaxWorkers + 1)
\* The threads of _pool = ThreadPoolExecutor(max_workers=1).
PoolThreads == 1..MaxWorkers

VARIABLES
    submitted,      \* job ids in the order _pool.submit accepted them
    started,        \* job ids in the order run_pipeline began
    pool_queue,     \* the pool's work queue: accepted, not yet picked up
    worker,         \* per pool thread: the job it runs, 0 when it waits
    future,         \* per job: "none", "pending", "running", "done", "failed"
    caller,         \* per job: where its submit_job call stands
    callbacks,      \* per job: _on_done is registered on the future
    logged          \* per job: what _on_done logged, "" before it ran

workerVars == <<submitted, started, pool_queue, worker, future, caller, callbacks, logged>>

\* Speaker diarisation (src/clipforge/speakers.py).
VARIABLES
    turns           \* the speaker turns handed to assign_speakers

speakerVars == <<turns>>

\* The objects behind the lists: a caller's Word objects, the list that holds
\* them and the dicts the subtitle step makes of a clip's words.
VARIABLES
    heap,           \* address -> the fields of the object stored there
    word_list,      \* the caller's word list: the addresses of its Words
    passed,         \* the candidate list as it was handed to _remove_overlapping
    labelled        \* the addresses of the dicts being re-timed

heapVars == <<heap, word_list, passed, labelled>>

\* The job store and the pipeline of the web application (src/web/store.py,
\* src/web/app.py, src/web/pipeline.py).
JobIds == {1, 2}
\* The place of a job file that does not exist.
NoFile == [status |-> "no file"]

VARIABLES
    store,          \* per job id: the content of its JSON file, NoFile without one
    request,        \* per job id: how the request that created it ended, "none" before
    params,         \* per job id: the parameters the request passed on
    deleted,        \* the job ids delete_job returned True for
    job_queue,      \* the jobs handed to the worker, not yet started
    running,        \* the job the worker thread runs, 0 when it waits
    stage,          \* the step run_pipeline is at
    phase,          \* where that step stands: "read", "write", "work", "finally", "unwind"
    data,           \* the local data of update_job between its read and its write
    segs,           \* per job id: how many segments select_clips returned, -1 before
    clip_data,      \* the clips rendered so far
    work_dir,       \* per job id: the job's work directory exists
    finished        \* per job id: "" while not run, then "returned" or "raised"

jobVars ==
    <<store, request, params, deleted, job_queue, running, stage, phase, data, segs,
      clip_data, work_dir, finished>>

vars == <<selectorVars, workerVars, speakerVars, heapVars, jobVars>>

\* What a selection run and the thread pool leave alone.
besideSelector == <<workerVars, speakerVars, heapVars, jobVars>>
besideWorker == <<selectorVars, speakerVars, heapVars, jobVars>>

SpeakersIdle == turns = <<>>

HeapIdle ==
    /\ heap = <<>>
    /\ word_list = <<>>
    /\ passed = <<>>
    /\ labelled = <<>>

\* No job was created and the worker thread waits.
JobsIdle ==
    /\ store = [j \in JobIds |-> NoFile]
    /\ request = [j \in JobIds |-> "none"]
    /\ params = [j \in JobIds |-> [music |-> FALSE]]
    /\ deleted = {}
    /\ job_queue = <<>>
    /\ running = 0
    /\ stage = "idle"
    /\ phase = "idle"
    /\ data = NoFile
    /\ segs = [j \in JobIds |-> -1]
    /\ clip_data = <<>>
    /\ work_dir = [j \in JobIds |-> FALSE]
    /\ finished = [j \in JobIds |-> ""]


\* No job was ever submitted.
WorkerIdle ==
    /\ submitted = <<>>
    /\ started = <<>>
    /\ pool_queue = <<>>
    /\ worker = [t \in PoolThreads |-> 0]
    /\ future = [j \in Jobs |-> "none"]
    /\ caller = [j \in Jobs |-> "idle"]
    /\ callbacks = [j \in Jobs |-> FALSE]
    /\ logged = [j \in Jobs |-> ""]

Init ==
    /\ \/ /\ \E n \in 0..MaxWords : \E c \in [1..n -> WordChoices] : words = StreamOf(c)
          /\ segments = <<>>
       \/ /\ words = <<>>
          /\ \E n \in 1..MaxSegments :
                \E c \in [1..n -> SegmentChoices] : segments = SegmentsOf(c)
    /\ impl = ""
    /\ min_duration = 0
    /\ max_duration = 0
    /\ num_clips = 0
    /\ keywords = <<>>
    /\ weights = NoWeights
    /\ candidates = <<>>
    /\ top = <<>>
    /\ result = NoResult
    /\ pc = "start"
    /\ WorkerIdle
    /\ SpeakersIdle
    /\ HeapIdle
    /\ JobsIdle

ForgeBuild ==
    /\ UNCHANGED besideSelector
    /\ pc = "start"
    /\ \E r \in DurationRanges :
        /\ min_duration' = r[1]
        /\ max_duration' = r[2]
        /\ candidates' = BuildCandidates(words, r[1], r[2])
    /\ impl' = "clipforge"
    /\ pc' = "candidates"
    /\ UNCHANGED <<words, segments, num_clips, keywords, weights, top, result>>

CraftGenerate ==
    /\ UNCHANGED besideSelector
    /\ pc = "start"
    /\ words /= <<>>
    /\ \E r \in DurationRanges :
        /\ min_duration' = r[1]
        /\ max_duration' = r[2]
        /\ candidates' = GenerateCandidates(words, FindSentenceBoundaries(words), r[1], r[2])
    /\ impl' = "clipcraft"
    /\ pc' = "candidates"
    /\ UNCHANGED <<words, segments, num_clips, keywords, weights, top, result>>

\* clipcraft select_clips when no segment carries word timestamps
CraftFallback ==
    /\ UNCHANGED besideSelector
    /\ pc = "start"
    /\ words = <<>>
    /\ \E r \in DurationRanges, n \in 0..MaxCount :
        /\ min_duration' = r[1]
        /\ max_duration' = r[2]
        /\ num_clips' = n
        /\ top' = FallbackSelection(segments, n, r[1], r[2])
    /\ impl' = "clipcraft"
    /\ pc' = "fallback"
    /\ UNCHANGED <<words, segments, keywords, weights, candidates, result>>

\* for seg in candidates: seg.score = score_segment(seg, keywords, weights)
ForgeScore ==
    /\ UNCHANGED besideSelector
    /\ pc = "candidates"
    /\ impl = "clipforge"
    /\ \E kw \in ScoreSettings :
        /\ keywords' = kw[1]
        /\ weights' = kw[2]
        /\ IF \E i \in 1..Len(candidates) :
                 ScoreSegment(candidates[i], kw[1], kw[2]).raised /= ""
           THEN /\ pc' = "raised"
                /\ UNCHANGED candidates
           ELSE /\ pc' = "scored"
                /\ candidates' = [i \in 1..Len(candidates) |->
                      [candidates[i] EXCEPT
                          !.score = ScoreSegment(candidates[i], kw[1], kw[2]).value]]
    /\ UNCHANGED <<words, segments, impl, min_duration, max_duration, num_clips, top, result>>

CraftScore ==
    /\ UNCHANGED besideSelector
    /\ pc = "candidates"
    /\ impl = "clipcraft"
    /\ candidates' = [i \in 1..Len(candidates) |->
          [candidates[i] EXCEPT !.score = ScoreClip(candidates[i])]]
    /\ pc' = "scored"
    /\ UNCHANGED <<words, segments, impl, min_duration, max_duration, num_clips, keywords, weights, top,
                   result>>

ForgeSelect ==
    /\ UNCHANGED besideSelector
    /\ pc = "scored"
    /\ impl = "clipforge"
    /\ \E n \in 0..MaxCount :
        /\ num_clips' = n
        /\ top' = ForgeTop(candidates, n)
    /\ pc' = "selected"
    /\ UNCHANGED <<words, segments, impl, min_duration, max_duration, keywords, weights, candidates,
                   result>>

CraftGreedy ==
    /\ UNCHANGED besideSelector
    /\ pc = "scored"
    /\ impl = "clipcraft"
    /\ \E n \in 0..MaxCount :
        /\ num_clips' = n
        /\ top' = CraftSelect(candidates, n)
    /\ pc' = "selected"
    /\ UNCHANGED <<words, segments, impl, min_duration, max_duration, keywords, weights, candidates,
                   result>>

Next ==
    \/ ForgeBuild
    \/ CraftGenerate
    \/ CraftFallback
    \/ ForgeScore
    \/ CraftScore
    \/ ForgeSelect
    \/ CraftGreedy

Spec == Init /\ [][Next]_vars

\* ------------------------------------------------------------------------
\* Direct calls of the two scoring functions
\* ------------------------------------------------------------------------
LongWords == 40

\* Segments handed to score_segment: up to two words, among them empty
\* texts, zero durations and long pauses.
ScoreWordChoices == {Hi, Ok, <<>>} \X {0, 5} \X {0, 1}

\* Weight mappings over every subset of the four names.
WeightValues == {RatInt(0), Rat(25, 100), RatInt(3)}
WeightMaps == UNION {[D -> WeightValues] : D \in SUBSET WeightNames}

\* Clips handed to _score_clip: n words spread evenly over dur seconds, the
\* first capitalised, then q questions and e exclamations, the last one
\* closing the sentence when stop holds.
EvenClipWords(n, dur, q, e, stop) ==
    [i \in 1..n |->
        Word(IF i = 1 THEN <<"H", "i">>
             ELSE IF i <= 1 + q THEN No
             ELSE IF i <= 1 + q + e THEN Go
             ELSE IF i = n /\ stop THEN OkStop
             ELSE Ok,
             ((i - 1) * dur) \div n,
             (i * dur) \div n)]

ClipDurations == {0, 15, 20, 61}

InitScore ==
    /\ segments = <<>>
    /\ \/ \E n \in 0..2 : \E c \in [1..n -> ScoreWordChoices] : words = StreamOf(c)
       \/ \E n \in {6, LongWords}, dur \in ClipDurations, q \in 0..2, e \in 0..2,
             stop \in BOOLEAN :
             words = EvenClipWords(n, dur, q, e, stop)
    /\ impl = ""
    /\ min_duration = 0
    /\ max_duration = 0
    /\ num_clips = 0
    /\ keywords = <<>>
    /\ weights = NoWeights
    /\ candidates = <<>>
    /\ top = <<>>
    /\ result = NoResult
    /\ pc = "start"
    /\ WorkerIdle
    /\ SpeakersIdle
    /\ HeapIdle
    /\ JobsIdle

\* score_segment(Segment(words), keywords, weights)
CallScoreSegment ==
    /\ UNCHANGED besideSelector
    /\ pc = "start"
    /\ Len(words) <= 2
    /\ \E kws \in KeywordLists, w \in WeightMaps :
        /\ keywords' = kws
        /\ weights' = w
        /\ result' = ScoreSegment(Segment(words), kws, w)
    /\ impl' = "clipforge"
    /\ pc' = "scored"
    /\ UNCHANGED <<words, segments, min_duration, max_duration, num_clips, candidates, top>>

\* _score_clip of the clip _generate_candidates makes of the whole stream
CallScoreClip ==
    /\ UNCHANGED besideSelector
    /\ pc = "start"
    /\ words /= <<>>
    /\ result' = [raised |-> "",
                  value |-> ScoreClip(Clip(words[1].start, words[Len(words)].end,
                                           JoinText(words), words))]
    /\ impl' = "clipcraft"
    /\ pc' = "scored"
    /\ UNCHANGED <<words, segments, min_duration, max_duration, num_clips, keywords, weights,
                   candidates, top>>

NextScore == CallScoreSegment \/ CallScoreClip

SpecScore == InitScore /\ [][NextScore]_vars

\* ------------------------------------------------------------------------
\* Direct calls of the boundary detector and the two generators, followed by
\* scoring and selection
\* ------------------------------------------------------------------------
MaxGenWords == 3

HiSp == <<"H", "i", ".", " ">>
Blank == <<" ">>

\* <<start delta, duration>> of a word: back to back, a long word that the
\* next one ends before, a pause, and a word whose end precedes its start.
GenTimings == {<<1, 1>>, <<1, 4>>, <<5, 1>>, <<1, -1>>}
GenWordChoices == {<<t, g[1], g[2]>> : t \in Texts, g \in GenTimings}

\* One-second words back to back, their texts with trailing blanks, blank
\* and empty.
BoundaryTexts == {Hi, Ok, HiSp, Blank, <<>>}
TextStreamOf(c) == [i \in 1..Len(c) |-> Word(c[i], i - 1, i)]

GenDurationRanges == {<<1, 2>>, <<2, 3>>, <<1, 7>>, <<3, 7>>}

InitGen ==
    /\ \/ \E n \in 0..MaxGenWords :
             \E c \in [1..n -> GenWordChoices] : words = StreamOf(c)
       \/ \E n \in 1..MaxGenWords :
             \E c \in [1..n -> BoundaryTexts] : words = TextStreamOf(c)
    /\ segments = <<>>
    /\ impl = ""
    /\ min_duration = 0
    /\ max_duration = 0
    /\ num_clips = 0
    /\ keywords = <<>>
    /\ weights = NoWeights
    /\ candidates = <<>>
    /\ top = <<>>
    /\ result = NoResult
    /\ pc = "start"
    /\ WorkerIdle
    /\ SpeakersIdle
    /\ HeapIdle
    /\ JobsIdle

\* _build_candidates(words, min_dur, max_dur)
CallBuildCandidates ==
    /\ UNCHANGED besideSelector
    /\ pc = "start"
    /\ \E r \in GenDurationRanges :
        /\ min_duration' = r[1]
        /\ max_duration' = r[2]
        /\ candidates' = BuildCandidates(words, r[1], r[2])
    /\ impl' = "clipforge"
    /\ pc' = "candidates"
    /\ UNCHANGED <<words, segments, num_clips, keywords, weights, top, result>>

\* boundaries = _find_sentence_boundaries(words)
CallFindSentenceBoundaries ==
    /\ UNCHANGED besideSelector
    /\ pc = "start"
    /\ result' = [raised |-> "", value |-> FindSentenceBoundaries(words)]
    /\ impl' = "clipcraft"
    /\ pc' = "boundaries"
    /\ UNCHANGED <<words, segments, min_duration, max_duration, num_clips, keywords, weights,
                   candidates, top>>

\* _generate_candidates(words, boundaries, min_dur, max_dur)
CallGenerateCandidates ==
    /\ UNCHANGED besideSelector
    /\ pc = "boundaries"
    /\ \E r \in GenDurationRanges :
        /\ min_duration' = r[1]
        /\ max_duration' = r[2]
        /\ candidates' = GenerateCandidates(words, result.value, r[1], r[2])
    /\ pc' = "candidates"
    /\ UNCHANGED <<words, segments, impl, num_clips, keywords, weights, top, result>>

NextGen ==
    \/ CallBuildCandidates
    \/ CallFindSentenceBoundaries
    \/ CallGenerateCandidates
    \/ ForgeScore
    \/ CraftScore
    \/ ForgeSelect
    \/ CraftGreedy

SpecGen == InitGen /\ [][NextGen]_vars

\* ------------------------------------------------------------------------
\* The thread-based worker: submit_job callers and the pool's threads
\* ------------------------------------------------------------------------
SelectorIdle ==
    /\ words = <<>>
    /\ segments = <<>>
    /\ impl = ""
    /\ min_duration = 0
    /\ max_duration = 0
    /\ num_clips = 0
    /\ keywords = <<>>
    /\ weights = NoWeights
    /\ candidates = <<>>
    /\ top = <<>>
    /\ result = NoResult
    /\ pc = "start"

InitWorker == SelectorIdle /\ WorkerIdle /\ SpeakersIdle /\ HeapIdle /\ JobsIdle

\* What _on_done logs for a finished future.
OnDoneLog(outcome) == IF outcome = "exception" THEN "raised" ELSE "finished"

\* future = _pool.submit(run_pipeline, job_id, params): the work item joins
\* the queue and the call returns the pending future.
SubmitToPool(j) ==
    /\ caller[j] = "idle"
    /\ future[j] = "none"
    /\ submitted' = Append(submitted, j)
    /\ pool_queue' = Append(pool_queue, j)
    /\ future' = [future EXCEPT ![j] = "pending"]
    /\ caller' = [caller EXCEPT ![j] = "submitted"]
    /\ UNCHANGED <<started, worker, callbacks, logged>>
    /\ UNCHANGED besideWorker

\* future.add_done_callback(...), then submit_job returns: the callback runs
\* at once in the caller when the future is already done, and is kept on the
\* future otherwise.
AddDoneCallback(j) ==
    /\ caller[j] = "submitted"
    /\ IF future[j] \in {"done", "failed"}
       THEN /\ logged' = [logged EXCEPT
                            ![j] = OnDoneLog(IF future[j] = "failed" THEN "exception"
                                             ELSE "result")]
            /\ UNCHANGED callbacks
       ELSE /\ callbacks' = [callbacks EXCEPT ![j] = TRUE]
            /\ UNCHANGED logged
    /\ caller' = [caller EXCEPT ![j] = "returned"]
    /\ UNCHANGED <<submitted, started, pool_queue, worker, future>>
    /\ UNCHANGED besideWorker

\* A waiting pool thread takes the oldest work item and calls run_pipeline.
WorkerTake(t) ==
    /\ worker[t] = 0
    /\ pool_queue /= <<>>
    /\ LET j == Head(pool_queue)
       IN  /\ worker' = [worker EXCEPT ![t] = j]
           /\ future' = [future EXCEPT ![j] = "running"]
           /\ started' = Append(started, j)
    /\ pool_queue' = Tail(pool_queue)
    /\ UNCHANGED <<submitted, caller, callbacks, logged>>
    /\ UNCHANGED besideWorker

\* run_pipeline returns or raises: the future is completed, a registered
\* callback runs in the pool thread, and the thread waits again.
WorkerFinish(t) ==
    /\ worker[t] /= 0
    /\ \E outcome \in {"result", "exception"} :
          LET j == worker[t]
          IN  /\ future' = [future EXCEPT
                               ![j] = IF outcome = "exception" THEN "failed" ELSE "done"]
              /\ logged' = [logged EXCEPT
                               ![j] = IF callbacks[j] THEN OnDoneLog(outcome) ELSE @]
    /\ worker' = [worker EXCEPT ![t] = 0]
    /\ UNCHANGED <<submitted, started, pool_queue, caller, callbacks>>
    /\ UNCHANGED besideWorker

NextWorker ==
    \/ \E j \in Jobs : SubmitToPool(j)
    \/ \E j \in Jobs : AddDoneCallback(j)
    \/ \E t \in PoolThreads : WorkerTake(t)
    \/ \E t \in PoolThreads : WorkerFinish(t)

SpecWorker == InitWorker /\ [][NextWorker]_vars

\* ------------------------------------------------------------------------
\* Direct calls of single features: the speech-rate score, the word-density
\* step and the keyword score
\* ------------------------------------------------------------------------
MaxRateWords == 6
RateDurations == {0, 1, 2, 4}

\* Keywords a caller supplies: lower case, upper case, one found in no text.
FeatureKeywords == {Ok, <<"G", "O">>, <<"h", "i">>, <<"o", "h">>}
FeatureKeywordLists ==
    UNION {[1..n -> FeatureKeywords] : n \in 0..2}

\* Two candidates side by side, each n words spread evenly over dur seconds.
InitFeature ==
    /\ words = <<>>
    /\ segments = <<>>
    /\ impl = ""
    /\ min_duration = 0
    /\ max_duration = 0
    /\ num_clips = 0
    /\ keywords = <<>>
    /\ weights = NoWeights
    /\ \E n1 \in 1..MaxRateWords, n2 \in 1..MaxRateWords,
          d1 \in RateDurations, d2 \in RateDurations, q \in 0..1, e \in 0..1 :
          candidates = <<Segment(EvenClipWords(n1, d1, q, e, FALSE)),
                         Segment(EvenClipWords(n2, d2, 0, 0, FALSE))>>
    /\ top = <<>>
    /\ result = NoResult
    /\ pc = "start"
    /\ WorkerIdle
    /\ SpeakersIdle
    /\ HeapIdle
    /\ JobsIdle

\* _speech_rate_score of each of the two candidates
CallSpeechRateScore ==
    /\ UNCHANGED besideSelector
    /\ pc = "start"
    /\ result' = [raised |-> "",
                  value |-> [i \in 1..Len(candidates) |-> SpeechRateScore(candidates[i])]]
    /\ impl' = "clipforge"
    /\ pc' = "rate"
    /\ UNCHANGED <<words, segments, min_duration, max_duration, num_clips, keywords, weights,
                   candidates, top>>

\* The word-density step of _score_clip on the clips of the same two word lists
CallDensityStep ==
    /\ UNCHANGED besideSelector
    /\ pc = "start"
    /\ result' = [raised |-> "",
                  value |-> [i \in 1..Len(candidates) |->
                      LET ws == candidates[i].words
                      IN  DensityPoints(Clip(ws[1].start, ws[Len(ws)].end, JoinText(ws), ws))]]
    /\ impl' = "clipcraft"
    /\ pc' = "rate"
    /\ UNCHANGED <<words, segments, min_duration, max_duration, num_clips, keywords, weights,
                   candidates, top>>

\* _keyword_score(candidates[1], keywords)
CallKeywordScore ==
    /\ UNCHANGED besideSelector
    /\ pc = "start"
    /\ \E kws \in FeatureKeywordLists :
        /\ keywords' = kws
        /\ result' = [raised |-> "", value |-> KeywordScore(candidates[1], kws)]
    /\ impl' = "clipforge"
    /\ pc' = "keyword"
    /\ UNCHANGED <<words, segments, min_duration, max_duration, num_clips, weights,
                   candidates, top>>

NextFeature == CallSpeechRateScore \/ CallDensityStep \/ CallKeywordScore

SpecFeature == InitFeature /\ [][NextFeature]_vars

\* ------------------------------------------------------------------------
\* Speaker labels: assign_speakers (src/clipforge/speakers.py)
\* ------------------------------------------------------------------------
DefaultSpeaker == "SPEAKER_00"

SpeakerTurn(speaker, start, end) == [speaker |-> speaker, start |-> start, end |-> end]

\* As SpeakerOf, a turn taken to end just before its end time.
RECURSIVE SpeakerOfHalfOpen(_, _, _, _)
SpeakerOfHalfOpen(w, ts, k, default_speaker) ==
    IF k > Len(ts) THEN default_speaker
    ELSE IF 2 * ts[k].start <= w.start + w.end /\ w.start + w.end < 2 * ts[k].end
         THEN ts[k].speaker
    ELSE SpeakerOfHalfOpen(w, ts, k + 1, default_speaker)

\* The inner loop over the turns from the k-th on: the first turn with
\* t.start <= mid <= t.end, mid = (start + end) / 2.0, taken times two.
RECURSIVE SpeakerOf(_, _, _, _)
SpeakerOf(w, ts, k, default_speaker) ==
    IF k > Len(ts) THEN default_speaker
    ELSE IF 2 * ts[k].start <= w.start + w.end /\ w.start + w.end <= 2 * ts[k].end
         THEN ts[k].speaker
    ELSE SpeakerOf(w, ts, k + 1, default_speaker)

AssignSpeakers(ws, ts, default_speaker) ==
    [i \in 1..Len(ws) |->
        [text |-> ws[i].text, start |-> ws[i].start, end |-> ws[i].end,
         speaker |-> SpeakerOf(ws[i], ts, 1, default_speaker)]]

MaxSpeakerWords == 2
MaxTurns == 2
SpeakerWordChoices == {Hi, Ok} \X {<<0, 1>>, <<1, 1>>, <<1, 2>>}
TurnChoices == {"SPEAKER_00", "SPEAKER_01"} \X {<<0, 1>>, <<1, 2>>, <<0, 2>>, <<2, 2>>}

InitSpeakers ==
    /\ \E n \in 0..MaxSpeakerWords : \E c \in [1..n -> SpeakerWordChoices] :
          words = [i \in 1..n |-> Word(c[i][1], c[i][2][1], c[i][2][2])]
    /\ \E n \in 0..MaxTurns : \E c \in [1..n -> TurnChoices] :
          turns = [i \in 1..n |-> SpeakerTurn(c[i][1], c[i][2][1], c[i][2][2])]
    /\ segments = <<>>
    /\ impl = ""
    /\ min_duration = 0
    /\ max_duration = 0
    /\ num_clips = 0
    /\ keywords = <<>>
    /\ weights = NoWeights
    /\ candidates = <<>>
    /\ top = <<>>
    /\ result = NoResult
    /\ pc = "start"
    /\ WorkerIdle
    /\ HeapIdle
    /\ JobsIdle

\* assign_speakers(words, turns)
CallAssignSpeakers ==
    /\ pc = "start"
    /\ result' = [raised |-> "", value |-> AssignSpeakers(words, turns, DefaultSpeaker)]
    /\ pc' = "assigned"
    /\ UNCHANGED <<words, segments, impl, min_duration, max_duration, num_clips, keywords,
                   weights, candidates, top>>
    /\ UNCHANGED <<workerVars, speakerVars, heapVars, jobVars>>

NextSpeakers == CallAssignSpeakers

SpecSpeakers == InitSpeakers /\ [][NextSpeakers]_vars

\* ------------------------------------------------------------------------
\* The engine and the subtitle step of its callers on shared objects: who
\* writes to the caller's Word objects and lists
\* ------------------------------------------------------------------------
\* The words a list of addresses stands for, each with the address it is at.
WordsAt(h, refs) ==
    [i \in 1..Len(refs) |->
        [text |-> h[refs[i]].text, start |-> h[refs[i]].start, end |-> h[refs[i]].end,
         ref |-> refs[i]]]

\* As ArgumentAfterSorted, the list sorted where it is (segments.sort).
ArgumentSortedInPlace(segs_arg) == SortByScoreDesc(segs_arg)

\* sorted(segments, ...) builds a new list: the argument as the call leaves it.
ArgumentAfterSorted(segs_arg) == segs_arg

\* As LabelledAddresses, the Word objects of the clip themselves.
LabelledAddressesAliased(seg, h) == [i \in 1..Len(seg.words) |-> seg.words[i].ref]

\* labelled = [{"text": w.text, ...} for w in seg.words]: one new dict per
\* word, at the addresses after the last one in use.
LabelledAddresses(seg, h) == [i \in 1..Len(seg.words) |-> Len(h) + i]

\* The heap after the dicts at lab were written with the words of seg, their
\* times less the start of the clip.
Retimed(h, seg, lab) ==
    LET offset == h[seg.words[1].ref].start
        size == IF \E i \in 1..Len(lab) : lab[i] > Len(h) THEN Len(h) + Len(lab) ELSE Len(h)
    IN  [a \in 1..size |->
            IF \E i \in 1..Len(lab) : lab[i] = a
            THEN LET i == CHOOSE i \in 1..Len(lab) : lab[i] = a
                     w == h[seg.words[i].ref]
                 IN  [text |-> w.text, start |-> w.start - offset, end |-> w.end - offset]
            ELSE h[a]]

InitHeap ==
    /\ \E n \in 1..MaxWords : \E c \in [1..n -> WordChoices] :
          /\ words = StreamOf(c)
          /\ heap = StreamOf(c)
          /\ word_list = [i \in 1..n |-> i]
    /\ passed = <<>>
    /\ labelled = <<>>
    /\ segments = <<>>
    /\ impl = "clipforge"
    /\ min_duration = 0
    /\ max_duration = 0
    /\ num_clips = 0
    /\ keywords = <<>>
    /\ weights = NoWeights
    /\ candidates = <<>>
    /\ top = <<>>
    /\ result = NoResult
    /\ pc = "start"
    /\ WorkerIdle
    /\ SpeakersIdle
    /\ JobsIdle

\* candidates = _build_candidates(words, min_dur, max_dur)
HeapBuildCandidates ==
    /\ pc = "start"
    /\ \E r \in DurationRanges :
        /\ min_duration' = r[1]
        /\ max_duration' = r[2]
        /\ candidates' = BuildCandidates(WordsAt(heap, word_list), r[1], r[2])
    /\ pc' = "candidates"
    /\ UNCHANGED <<words, segments, impl, num_clips, keywords, weights, top, result>>
    /\ UNCHANGED <<workerVars, speakerVars, heapVars, jobVars>>

\* for seg in candidates: seg.score = score_segment(seg, keywords=keywords)
HeapScoreSegments ==
    /\ pc = "candidates"
    /\ \E kws \in KeywordLists :
        /\ keywords' = kws
        /\ candidates' = [i \in 1..Len(candidates) |->
              [candidates[i] EXCEPT !.score = ScoreSegment(candidates[i], kws, NoWeights).value]]
    /\ pc' = "scored"
    /\ UNCHANGED <<words, segments, impl, min_duration, max_duration, num_clips, weights, top,
                   result>>
    /\ UNCHANGED <<workerVars, speakerVars, heapVars, jobVars>>

\* top = _remove_overlapping(candidates)
HeapRemoveOverlapping ==
    /\ pc = "scored"
    /\ passed' = candidates
    /\ top' = RemoveOverlapping(candidates)
    /\ candidates' = ArgumentAfterSorted(candidates)
    /\ pc' = "selected"
    /\ UNCHANGED <<words, segments, impl, min_duration, max_duration, num_clips, keywords,
                   weights, result>>
    /\ UNCHANGED <<heap, word_list, labelled>>
    /\ UNCHANGED <<workerVars, speakerVars, jobVars>>

\* The subtitle step of a caller for the k-th clip: the words copied into
\* dicts and the dicts moved to start at 0.
HeapRetimeSubtitles(k) ==
    /\ pc = "selected"
    /\ k \in 1..Len(top)
    /\ labelled' = LabelledAddresses(top[k], heap)
    /\ heap' = Retimed(heap, top[k], labelled')
    /\ num_clips' = k
    /\ pc' = "retimed"
    /\ UNCHANGED <<words, segments, impl, min_duration, max_duration, keywords, weights,
                   candidates, top, result>>
    /\ UNCHANGED <<word_list, passed>>
    /\ UNCHANGED <<workerVars, speakerVars, jobVars>>

NextHeap ==
    \/ HeapBuildCandidates
    \/ HeapScoreSegments
    \/ HeapRemoveOverlapping
    \/ \E k \in 1..MaxWords : HeapRetimeSubtitles(k)

SpecHeap == InitHeap /\ [][NextHeap]_vars

\* ------------------------------------------------------------------------
\* The web application: job-creating and job-deleting requests, the job
\* store and run_pipeline on the worker thread
\* ------------------------------------------------------------------------
MaxSegs == 2

NoClipsMessage == "No suitable clips found."

\* create_job: the record of a new job.
NewJob == [status |-> "pending", progress |-> "Queued", message |-> "", clips |-> <<>>]

\* get_job: None without the file, else the record read from it.
None == [status |-> "None"]
GetJob(st, j) == IF st[j] = NoFile THEN None ELSE st[j]

\* The clip_data entries after n clips were rendered, by their labels.
ClipData(n) == [i \in 1..n |-> ClipLabel(i)]

\* The keyword arguments of the update_job call of each step of run_pipeline.
UpdateArgs(stg, done, n) ==
    CASE stg = "downloading" ->
            [status |-> "downloading", progress |-> "Downloading video..."]
      [] stg = "transcribing" ->
            [status |-> "transcribing", progress |-> "Transcribing audio..."]
      [] stg = "no_clips" ->
            [status |-> "failed", message |-> NoClipsMessage]
      [] stg = "selecting" ->
            [status |-> "selecting", progress |-> "Selected " \o ToString(n) \o " clips"]
      [] stg = "rendering" ->
            [status |-> "rendering", progress |-> "Rendering clips..."]
      [] stg = "render_clip" ->
            [progress |-> "Rendering clip " \o ToString(Len(done) + 1) \o "/"
                              \o ToString(n) \o "..."]
      [] stg = "mixing" ->
            [status |-> "mixing_music", progress |-> "Mixing background music..."]
      [] stg = "completed" ->
            [status |-> "completed", progress |-> "Done!", clips |-> done]
      [] stg = "except" ->
            [status |-> "failed", progress |-> "Failed", message |-> "error"]

\* update_job between its read and its write: the fields given are replaced.
Updated(rec, args) ==
    [f \in DOMAIN rec |-> IF f \in DOMAIN args THEN args[f] ELSE rec[f]]

\* As AfterSelect, the empty selection not told apart.
AfterSelectNotChecked(n) == "selecting"

\* if not segments: ... return; else the "selecting" update.
AfterSelect(n) == IF n = 0 THEN "no_clips" ELSE "selecting"

\* As ReturnsAfter, the try block running on after the last update.
ReturnsAfterFailureOnly == {"no_clips", "except"}

\* The updates run_pipeline returns after.
ReturnsAfter == {"no_clips", "completed", "except"}

\* The step after the clips are rendered.
AfterRender(music) == IF music THEN "mixing" ELSE "completed"

InitJobs ==
    /\ SelectorIdle
    /\ WorkerIdle
    /\ SpeakersIdle
    /\ HeapIdle
    /\ JobsIdle

\* POST /api/jobs (create_new_job) with a source: create_job, the upload
\* saved, _dispatch. An upload over MAX_UPLOAD_MB raises HTTPException(413)
\* after create_job and before _dispatch. A request without source is
\* refused with 400 before anything is created.
CreateNewJob(j, source, music) ==
    /\ request[j] = "none"
    /\ \A i \in JobIds : i < j => request[i] /= "none"
    /\ source \in {"url", "file", "big_file"}
    /\ store' = [store EXCEPT ![j] = NewJob]
    /\ params' = [params EXCEPT ![j] = [music |-> music]]
    /\ IF source = "big_file"
       THEN /\ request' = [request EXCEPT ![j] = "rejected"]
            /\ UNCHANGED job_queue
       ELSE /\ request' = [request EXCEPT ![j] = "dispatched"]
            /\ job_queue' = Append(job_queue, j)
    /\ UNCHANGED <<deleted, running, stage, phase, data, segs, clip_data, work_dir, finished>>
    /\ UNCHANGED <<selectorVars, workerVars, speakerVars, heapVars>>

\* POST /api/jobs/json (create_job_json) with a source_url
CreateJobJson(j, music) ==
    /\ request[j] = "none"
    /\ \A i \in JobIds : i < j => request[i] /= "none"
    /\ store' = [store EXCEPT ![j] = NewJob]
    /\ params' = [params EXCEPT ![j] = [music |-> music]]
    /\ request' = [request EXCEPT ![j] = "dispatched"]
    /\ job_queue' = Append(job_queue, j)
    /\ UNCHANGED <<deleted, running, stage, phase, data, segs, clip_data, work_dir, finished>>
    /\ UNCHANGED <<selectorVars, workerVars, speakerVars, heapVars>>

\* DELETE /api/jobs/{id} (delete_job_endpoint) for a job with a file:
\* delete_job unlinks the file and returns True. Without a file it is 404.
DeleteJobEndpoint(j) ==
    /\ store[j] /= NoFile
    /\ store' = [store EXCEPT ![j] = NoFile]
    /\ deleted' = deleted \cup {j}
    /\ UNCHANGED <<request, params, job_queue, running, stage, phase, data, segs, clip_data,
                   work_dir, finished>>
    /\ UNCHANGED <<selectorVars, workerVars, speakerVars, heapVars>>

\* The worker thread takes the next job and run_pipeline begins: the work
\* directory is made, then the first update_job is called.
PipelineStart ==
    /\ running = 0
    /\ job_queue /= <<>>
    /\ running' = Head(job_queue)
    /\ job_queue' = Tail(job_queue)
    /\ work_dir' = [work_dir EXCEPT ![Head(job_queue)] = TRUE]
    /\ stage' = "downloading"
    /\ phase' = "read"
    /\ clip_data' = <<>>
    /\ UNCHANGED <<store, request, params, deleted, data, segs, finished>>
    /\ UNCHANGED <<selectorVars, workerVars, speakerVars, heapVars>>

\* update_job, first half: data = json.loads(f.read_text()). Without the
\* file read_text raises FileNotFoundError: inside the try block the except
\* handler takes over, inside the handler the exception leaves run_pipeline.
UpdateRead ==
    /\ running /= 0
    /\ phase = "read"
    /\ IF store[running] /= NoFile
       THEN /\ data' = store[running]
            /\ phase' = "write"
            /\ UNCHANGED stage
       ELSE /\ UNCHANGED data
            /\ IF stage = "except"
               THEN phase' = "unwind" /\ UNCHANGED stage
               ELSE stage' = "except" /\ phase' = "read"
    /\ UNCHANGED <<store, request, params, deleted, job_queue, running, segs, clip_data,
                   work_dir, finished>>
    /\ UNCHANGED <<selectorVars, workerVars, speakerVars, heapVars>>

\* update_job, second half: the fields set and f.write_text(...), which
\* makes the file when there is none; then what follows the call.
UpdateWrite ==
    /\ running /= 0
    /\ phase = "write"
    /\ store' = [store EXCEPT
                    ![running] = Updated(data, UpdateArgs(stage, clip_data, segs[running]))]
    /\ data' = NoFile
    /\ IF stage \in ReturnsAfter
       THEN phase' = "finally" /\ UNCHANGED stage
       ELSE IF stage = "selecting"
       THEN stage' = "rendering" /\ phase' = "read"
       ELSE phase' = "work" /\ UNCHANGED stage
    /\ UNCHANGED <<request, params, deleted, job_queue, running, segs, clip_data, work_dir,
                   finished>>
    /\ UNCHANGED <<selectorVars, workerVars, speakerVars, heapVars>>

\* The work of a step raises (resolve_source, select_clips, AspectRatio,
\* extract_clip, prepare_music): the except handler takes over.
WorkRaises ==
    /\ running /= 0
    /\ phase = "work"
    /\ stage' = "except"
    /\ phase' = "read"
    /\ UNCHANGED <<store, request, params, deleted, job_queue, running, data, segs, clip_data,
                   work_dir, finished>>
    /\ UNCHANGED <<selectorVars, workerVars, speakerVars, heapVars>>

\* The work of a step succeeds and the next update_job is called.
WorkDone ==
    /\ running /= 0
    /\ phase = "work"
    /\ stage \in {"downloading", "transcribing", "rendering", "render_clip", "mixing"}
    /\ phase' = "read"
    /\ CASE stage = "downloading" ->
                /\ stage' = "transcribing"
                /\ UNCHANGED <<segs, clip_data>>
         [] stage = "transcribing" ->
                \E n \in 0..MaxSegs :
                    /\ segs' = [segs EXCEPT ![running] = n]
                    /\ stage' = AfterSelect(n)
                    /\ UNCHANGED clip_data
         [] stage = "rendering" ->
                /\ stage' = IF segs[running] = 0 THEN AfterRender(params[running].music)
                            ELSE "render_clip"
                /\ UNCHANGED <<segs, clip_data>>
         [] stage = "render_clip" ->
                /\ clip_data' = ClipData(Len(clip_data) + 1)
                /\ stage' = IF Len(clip_data) + 1 < segs[running] THEN "render_clip"
                            ELSE AfterRender(params[running].music)
                /\ UNCHANGED segs
         [] stage = "mixing" ->
                /\ stage' = "completed"
                /\ UNCHANGED <<segs, clip_data>>
    /\ UNCHANGED <<store, request, params, deleted, job_queue, running, data, work_dir,
                   finished>>
    /\ UNCHANGED <<selectorVars, workerVars, speakerVars, heapVars>>

\* finally: the work directory is removed; run_pipeline returns or lets the
\* exception of its handler out, and the worker thread is free again.
PipelineFinally ==
    /\ running /= 0
    /\ phase \in {"finally", "unwind"}
    /\ work_dir' = [work_dir EXCEPT ![running] = FALSE]
    /\ finished' = [finished EXCEPT
                       ![running] = IF phase = "finally" THEN "returned" ELSE "raised"]
    /\ running' = 0
    /\ stage' = "idle"
    /\ phase' = "idle"
    /\ clip_data' = <<>>
    /\ UNCHANGED <<store, request, params, deleted, job_queue, data, segs>>
    /\ UNCHANGED <<selectorVars, workerVars, speakerVars, heapVars>>

NextJobs ==
    \/ \E j \in JobIds, source \in {"url", "file", "big_file"}, music \in BOOLEAN :
          CreateNewJob(j, source, music)
    \/ \E j \in JobIds, music \in BOOLEAN : CreateJobJson(j, music)
    \/ \E j \in JobIds : DeleteJobEndpoint(j)
    \/ PipelineStart
    \/ UpdateRead
    \/ UpdateWrite
    \/ WorkRaises
    \/ WorkDone
    \/ PipelineFinally

SpecJobs == InitJobs /\ [][NextJobs]_vars

\* ------------------------------------------------------------------------
\* Vocabulary of the properties
\* ------------------------------------------------------------------------
Forge == impl = "clipforge"
Craft == impl = "clipcraft"

IvStart(c) == IF Forge THEN SegStart(c) ELSE c.start
IvEnd(c) == IF Forge THEN SegEnd(c) ELSE c.end

\* Two clips share more than an instant of the recording.
ShareTime(a, b) == IvStart(a) < IvEnd(b) /\ IvStart(b) < IvEnd(a)

\* One clip ends at least g seconds before the other starts.
Separated(a, b, g) == IvEnd(a) + g <= IvStart(b) \/ IvEnd(b) + g <= IvStart(a)

\* What keeps two clips out of the same output: shared time in clipcraft,
\* less than the minimum gap apart in clipforge.
Conflict(a, b) == IF Forge THEN ~Separated(a, b, MinGap) ELSE ShareTime(a, b)

\* A candidate or output clip without its label.
Unlabelled(c) == IF Forge THEN [c EXCEPT !.label = ""] ELSE c
AsSet(s) == {Unlabelled(s[i]) : i \in 1..Len(s)}

\* Last word's end minus first word's start.
WordSpan(c) == c.words[Len(c.words)].end - c.words[1].start

\* (C1) Every candidate either generator emits has
\* min_duration <= duration <= max_duration, the duration being the last
\* word's end minus the first word's start.
CandidateDurationInRange ==
    pc \in {"candidates", "scored", "selected"} =>
        \A i \in 1..Len(candidates) :
            /\ candidates[i].words /= <<>>
            /\ min_duration <= WordSpan(candidates[i])
            /\ WordSpan(candidates[i]) <= max_duration
            /\ IvEnd(candidates[i]) - IvStart(candidates[i]) = WordSpan(candidates[i])

\* Both bounds are met with equality by candidates of one run.
CandidateDurationWitness ==
    /\ pc = "candidates"
    /\ \E i \in 1..Len(candidates) : WordSpan(candidates[i]) = max_duration
    /\ \E i \in 1..Len(candidates) : WordSpan(candidates[i]) = min_duration
    /\ Len(words) > Len(candidates[1].words)

\* (C2) No two clips of the output share time; in clipforge any two are at
\* least the minimum gap of 2 s apart.
OutputNonOverlapping ==
    pc = "selected" =>
        \A i, j \in 1..Len(top) :
            i /= j =>
                /\ ~ShareTime(top[i], top[j])
                /\ Forge => Separated(top[i], top[j], 2)

\* Two clips are selected while a third candidate was turned down for being
\* too close to one of them.
OutputNonOverlappingWitness ==
    /\ pc = "selected"
    /\ Len(top) >= 2
    /\ \E i \in 1..Len(candidates) :
          /\ Unlabelled(candidates[i]) \notin AsSet(top)
          /\ \E k \in 1..Len(top) :
                ~ShareTime(candidates[i], top[k]) /\ Conflict(candidates[i], top[k])

\* The greedy walk of the selector as the specification words it: take the
\* candidates in the given order, accept one when it conflicts with none
\* accepted so far, stop once count are accepted.
RECURSIVE GreedyAccepted(_, _, _, _)
GreedyAccepted(ranked, i, acc, count) ==
    IF i > Len(ranked) \/ Len(acc) >= count THEN acc
    ELSE IF \A k \in 1..Len(acc) : ~Conflict(ranked[i], acc[k])
         THEN GreedyAccepted(ranked, i + 1, Append(acc, ranked[i]), count)
         ELSE GreedyAccepted(ranked, i + 1, acc, count)

ByScore == SortByScoreDesc(candidates)

\* (C3) For count >= 1 the output is the set of the first count candidates
\* the greedy walk in descending score order accepts, so the highest-scoring
\* candidate is in the output.
OutputIsGreedyFirstCount ==
    (pc = "selected" /\ num_clips >= 1) =>
        /\ AsSet(top) = AsSet(GreedyAccepted(ByScore, 1, <<>>, num_clips))
        /\ candidates /= <<>> => Unlabelled(ByScore[1]) \in AsSet(top)

\* (C4) as claimed: count clips are returned whenever count candidates exist
\* that are mutually non-overlapping.
CountWhenEnoughDisjoint ==
    pc = "selected" =>
        ((\E S \in SUBSET (1..Len(candidates)) :
             /\ Cardinality(S) = num_clips
             /\ \A i, j \in S : i /= j => ~Conflict(candidates[i], candidates[j]))
         => Len(top) = num_clips)

\* (C4) as amended: an output shorter than count is a maximal selection,
\* every candidate left out conflicts with a selected one.
ShortOutputIsMaximal ==
    (pc = "selected" /\ Len(top) < num_clips) =>
        \A i \in 1..Len(candidates) :
            \/ Unlabelled(candidates[i]) \in AsSet(top)
            \/ \E k \in 1..Len(top) : Conflict(candidates[i], top[k])

\* count mutually compatible candidates exist and the greedy output is
\* shorter all the same.
ShortOutputWitness ==
    /\ pc = "selected"
    /\ 0 < Len(top) /\ Len(top) < num_clips
    /\ \E S \in SUBSET (1..Len(candidates)) :
          /\ Cardinality(S) = num_clips
          /\ \A i, j \in S : i /= j => ~Conflict(candidates[i], candidates[j])

\* (C5) The output never has more than count clips, for count >= 0, and an
\* empty candidate list gives an empty output.
OutputAtMostCount ==
    /\ pc \in {"selected", "fallback"} => Len(top) <= num_clips
    /\ (pc = "selected" /\ candidates = <<>>) => top = <<>>

\* count clips are returned and a further candidate, compatible with each of
\* them, is left out.
OutputAtMostCountWitness ==
    /\ pc = "selected"
    /\ num_clips >= 1
    /\ Len(top) = num_clips
    /\ \E i \in 1..Len(candidates) :
          \A k \in 1..Len(top) : ~Conflict(candidates[i], top[k])

ClipLabels ==
    <<"clip_01", "clip_02", "clip_03", "clip_04", "clip_05",
      "clip_06", "clip_07", "clip_08", "clip_09">>

ByStart == SortByKey(candidates, [i \in 1..Len(candidates) |-> RatInt(IvStart(candidates[i]))])

\* (C10) Among candidates of equal score the walk takes the earlier start
\* first; with all-zero weights the output is the greedy selection over the
\* candidates in chronological order.
TiesPreferEarliestStart ==
    pc = "selected" =>
        /\ \A i, j \in 1..Len(ByScore) :
              (i < j /\ ByScore[i].score = ByScore[j].score)
                  => IvStart(ByScore[i]) <= IvStart(ByScore[j])
        /\ (Forge /\ weights = ZeroWeights) =>
              AsSet(top) = AsSet(Take(
                  GreedyAccepted(ByStart, 1, <<>>,
                                 Len(candidates)),
                  num_clips))

NonNegative(w) == \A k \in DOMAIN w : RatLe(RatInt(0), w[k])

\* (C7) score_segment returns a value in [0, 1] for every segment, keyword
\* list and complete mapping of non-negative weights.
ScoreSegmentInUnitRange ==
    (pc = "scored" /\ Forge /\ DOMAIN weights = WeightNames /\ NonNegative(weights)) =>
        /\ result.raised = ""
        /\ RatLe(RatInt(0), result.value)
        /\ RatLe(result.value, RatInt(1))

\* A boundary weight of 3 on a segment that starts capitalised and ends a
\* sentence: the weighted sum is above 1 and the score is 1.
ScoreSegmentInUnitRangeWitness ==
    /\ pc = "scored"
    /\ Forge
    /\ DOMAIN weights = WeightNames
    /\ weights["boundary"] = RatInt(3)
    /\ SentenceBoundaryScore(Segment(words)) = RatInt(1)
    /\ result.value = RatInt(1)

\* (C8) _score_clip returns a score from 0 to 100.
ScoreClipInRange ==
    (pc = "scored" /\ Craft) =>
        /\ RatLe(RatInt(0), result.value)
        /\ RatLe(result.value, RatInt(100))

\* The defaults with the caller's entries put in their place.
MergedWeights(w) ==
    [k \in WeightNames |-> IF k \in DOMAIN w THEN w[k] ELSE DefaultWeights[k]]

\* (C9) A mapping that overrides any subset of the weights is accepted: no
\* exception, defaults for the rest, a score in [0, 1].
PartialWeightsAccepted ==
    (pc = "scored" /\ Forge) =>
        /\ result.raised = ""
        /\ result = ScoreSegment(Segment(words), keywords, MergedWeights(weights))
        /\ RatLe(RatInt(0), result.value)
        /\ RatLe(result.value, RatInt(1))

\* The stream obeys the Word invariants: start <= end for every word and
\* non-decreasing starts.
ValidStream ==
    /\ \A i \in 1..Len(words) : words[i].start <= words[i].end
    /\ \A i \in 1..(Len(words) - 1) : words[i].start <= words[i + 1].start

\* No word ends before an earlier one does.
EndsNonDecreasing ==
    \A i \in 1..(Len(words) - 1) : words[i].end <= words[i + 1].end

\* Last end minus first start.
StreamSpan == words[Len(words)].end - words[1].start

\* Latest end of any word minus earliest start of any word.
StreamExtent ==
    (CHOOSE m \in {words[i].end : i \in 1..Len(words)} :
         \A i \in 1..Len(words) : words[i].end <= m)
    - (CHOOSE m \in {words[i].start : i \in 1..Len(words)} :
         \A i \in 1..Len(words) : m <= words[i].start)

Generated == pc \in {"candidates", "scored", "selected"}

\* (C12) as claimed: an empty stream, or one whose last end minus first
\* start is below min_duration, gives no candidates and an empty selection,
\* and nothing is raised.
ShortSpanGivesNothing ==
    (Generated /\ (words = <<>> \/ (ValidStream /\ StreamSpan < min_duration))) =>
        /\ candidates = <<>>
        /\ pc = "selected" => top = <<>>

\* (C12) as amended: an empty stream, or one whose latest word end minus
\* earliest word start is below min_duration, gives no candidates and an
\* empty selection, and nothing is raised.
ShortExtentGivesNothing ==
    /\ pc /= "raised"
    /\ (Generated /\ (words = <<>> \/ StreamExtent < min_duration)) =>
          /\ candidates = <<>>
          /\ pc = "selected" => top = <<>>

\* A stream of two sentences, each shorter than min_duration and so is the
\* whole, went through the boundary-pair generator and the selector.
ShortExtentWitness ==
    /\ pc = "selected"
    /\ Craft
    /\ Len(words) >= 2
    /\ Len(result.value) >= 3
    /\ 0 < StreamExtent /\ StreamExtent < min_duration
    /\ num_clips >= 1

\* The text, blanks at its end apart, ends with '.', '!' or '?'.
EndsSentence(t) ==
    \E j \in 1..Len(t) :
        /\ t[j] \in TerminalPunct
        /\ \A m \in (j + 1)..Len(t) : t[m] = " "

\* (C13) _find_sentence_boundaries returns a strictly increasing list of
\* indices in 0..n that contains 0 and n, and contains k with 0 < k < n
\* exactly when the word before index k ends a sentence.
BoundariesWellFormed ==
    pc = "boundaries" =>
        LET b == result.value
            n == Len(words)
            listed == {b[i] : i \in 1..Len(b)}
        IN  /\ \A i \in 1..(Len(b) - 1) : b[i] < b[i + 1]
            /\ listed \subseteq 0..n
            /\ 0 \in listed
            /\ n \in listed
            /\ \A k \in 1..(n - 1) : k \in listed <=> EndsSentence(words[k].text)

\* "Hi. " (trailing blank) opens a boundary, the blank word after it does
\* not, and the sentence-final last word adds no second n.
BoundariesWitness ==
    /\ pc = "boundaries"
    /\ Len(words) = 3
    /\ words[1].text = HiSp
    /\ words[2].text = Blank
    /\ words[3].text = Hi
    /\ result.value = <<0, 1, 3>>

\* ws is words[i:j] for some i < j: consecutive words of the stream, in
\* stream order, none skipped and none repeated.
IsSlice(ws) ==
    \E i \in 1..Len(words) : \E j \in i..Len(words) : ws = SubSeq(words, i, j)

\* (C14) Every candidate's words are a contiguous slice of the word stream,
\* for both generators and every stream with start <= end per word and
\* non-decreasing starts.
CandidatesAreSlices ==
    (Generated /\ ValidStream) =>
        \A c \in 1..Len(candidates) : IsSlice(candidates[c].words)

\* One utterance without terminal punctuation: no '.', '!' or '?' anywhere
\* and no pause, every word starting by the time the one before it ends.
Unpunctuated ==
    \A i \in 1..Len(words) : \A k \in 1..Len(words[i].text) :
        words[i].text[k] \notin TerminalPunct

Uninterrupted ==
    \A i \in 1..(Len(words) - 1) : words[i + 1].start <= words[i].end

LongUtterance ==
    /\ words /= <<>>
    /\ ValidStream
    /\ Unpunctuated
    /\ Uninterrupted
    /\ StreamSpan > max_duration

\* No word ends more than max_duration - min_duration after the word before
\* it ends, the first one after the stream starts.
EndsWithinSlack ==
    /\ words[1].end - words[1].start <= max_duration - min_duration
    /\ \A i \in 1..(Len(words) - 1) :
          words[i + 1].end - words[i].end <= max_duration - min_duration

\* (C15) as claimed: for a long utterance without terminal punctuation whose
\* span exceeds max_duration the sliding window emits a candidate, and the
\* boundary pairs give none without raising.
LongUtteranceStillWindowed ==
    (pc = "candidates" /\ LongUtterance) =>
        /\ Forge => candidates /= <<>>
        /\ Craft => candidates = <<>>

\* (C15) as amended: the same for an utterance in which no word ends more
\* than max_duration - min_duration after the one before it.
SteadyUtteranceStillWindowed ==
    (pc = "candidates" /\ LongUtterance /\ EndsWithinSlack) =>
        /\ Forge => candidates /= <<>>
        /\ Craft => candidates = <<>>

\* The sliding window emitted a candidate for such an utterance: a proper
\* part of it, no longer than max_duration.
SteadyUtteranceWitness ==
    /\ pc = "candidates"
    /\ Forge
    /\ LongUtterance
    /\ EndsWithinSlack
    /\ candidates /= <<>>
    /\ Len(candidates[1].words) < Len(words)

\* Texts as the transcribers deliver them: stripped and not empty.
CleanTexts ==
    \A i \in 1..Len(words) :
        /\ words[i].text /= <<>>
        /\ words[i].text[1] /= " "
        /\ words[i].text[Len(words[i].text)] /= " "

StartsCapital(ws) == IsUpper(ws[1].text[1])
EndsFinal(ws) == ws[Len(ws)].text[Len(ws[Len(ws)].text)] \in TerminalPunct

\* The stream opens on a capitalised word, closes on terminal punctuation
\* and spans between min_duration and max_duration.
SentenceStream ==
    /\ words /= <<>>
    /\ ValidStream
    /\ CleanTexts
    /\ StartsCapital(words)
    /\ EndsFinal(words)
    /\ min_duration <= StreamSpan
    /\ StreamSpan <= max_duration

\* The boundary-completeness feature of a candidate and its maximum.
CompletenessOf(c) ==
    IF Forge THEN SentenceBoundaryScore(c) ELSE RatInt(CompletenessPoints(c))
FullCompleteness == IF Forge THEN RatInt(1) ELSE RatInt(25)

\* Full credit for both sides, none for neither, something in between for
\* one side alone.
CreditBySides(c) ==
    LET v == CompletenessOf(c)
        sides == (IF StartsCapital(c.words) THEN 1 ELSE 0)
                 + (IF EndsFinal(c.words) THEN 1 ELSE 0)
    IN  CASE sides = 2 -> v = FullCompleteness
          [] sides = 1 -> RatLt(RatInt(0), v) /\ RatLt(v, FullCompleteness)
          [] OTHER -> v = RatInt(0)

WholeStreamEmittedComplete ==
    \E c \in 1..Len(candidates) :
        /\ candidates[c].words = words
        /\ CompletenessOf(candidates[c]) = FullCompleteness

\* (C16) as claimed: a stream that opens capitalised, closes on terminal
\* punctuation and spans between min_duration and max_duration is emitted
\* whole with the completeness feature at its maximum; one side alone earns
\* partial credit and neither side none.
SentenceStreamEmittedWhole ==
    (pc = "candidates" /\ ValidStream /\ CleanTexts) =>
        /\ SentenceStream => WholeStreamEmittedComplete
        /\ \A c \in 1..Len(candidates) : CreditBySides(candidates[c])

\* (C16) as amended: the same for streams in which no word ends before an
\* earlier one does.
OrderedSentenceStreamEmittedWhole ==
    (pc = "candidates" /\ ValidStream /\ CleanTexts) =>
        /\ (SentenceStream /\ EndsNonDecreasing) => WholeStreamEmittedComplete
        /\ \A c \in 1..Len(candidates) : CreditBySides(candidates[c])

\* Three words, two sentences: the whole stream is a candidate with full
\* credit, and another candidate satisfies one side only.
SentenceStreamWitness ==
    /\ pc = "candidates"
    /\ Len(words) = 3
    /\ SentenceStream
    /\ EndsNonDecreasing
    /\ WholeStreamEmittedComplete
    /\ \E c \in 1..Len(candidates) :
          /\ RatLt(RatInt(0), CompletenessOf(candidates[c]))
          /\ RatLt(CompletenessOf(candidates[c]), FullCompleteness)

\* (C17) clipcraft select_clips returns at most count clips, in ascending
\* order of start and mutually non-overlapping, on the word-level path and
\* on the segment-level fallback alike.
CraftOutputOrderedOnBothPaths ==
    (Craft /\ pc \in {"selected", "fallback"}) =>
        /\ Len(top) <= num_clips
        /\ \A i, j \in 1..Len(top) : i < j => top[i].start <= top[j].start
        /\ \A i, j \in 1..Len(top) : i /= j => ~Overlaps(top[i], top[j])

\* (C19) A word with end < start is clamped or dropped and the rest of the
\* stream is processed: nothing is raised and no candidate contains a word
\* with end < start.
MalformedWordsKeptOut ==
    /\ pc /= "raised"
    /\ Generated =>
          \A c \in 1..Len(candidates) : \A k \in 1..Len(candidates[c].words) :
              candidates[c].words[k].start <= candidates[c].words[k].end

\* The boundaries the boundary-pair generator was given, as a set of 0-based
\* indices, and the duration of the pair (b, e): the end of the word before
\* index e minus the start of the word at index b.
BoundarySet == {result.value[i] : i \in 1..Len(result.value)}
PairDuration(b, e) == words[e].end - words[b + 1].start
BoundaryPairs == {p \in BoundarySet \X BoundarySet : p[1] < p[2]}
PairsInRange ==
    {p \in BoundaryPairs :
        /\ min_duration <= PairDuration(p[1], p[2])
        /\ PairDuration(p[1], p[2]) <= max_duration}

DurationsNonDecreasing ==
    \A p, q \in BoundaryPairs :
        (p[1] = q[1] /\ p[2] < q[2]) =>
            PairDuration(p[1], p[2]) <= PairDuration(q[1], q[2])

\* One candidate for each boundary pair in range and no other candidate.
OneCandidatePerPairInRange ==
    /\ {candidates[c].words : c \in 1..Len(candidates)}
           = {SubSeq(words, p[1] + 1, p[2]) : p \in PairsInRange}
    /\ Len(candidates) = Cardinality(PairsInRange)
    /\ \A c \in 1..Len(candidates) :
          /\ candidates[c].start = candidates[c].words[1].start
          /\ candidates[c].end = candidates[c].words[Len(candidates[c].words)].end
          /\ candidates[c].text = JoinText(candidates[c].words)

\* (C20) as claimed: for every stream with start <= end per word and
\* non-decreasing starts the pair duration does not decrease as the end
\* boundary advances, and _generate_candidates emits exactly one candidate
\* per boundary pair whose duration is in range.
EarlyExitSkipsNothing ==
    (Craft /\ pc = "candidates" /\ ValidStream) =>
        /\ DurationsNonDecreasing
        /\ OneCandidatePerPairInRange

\* (C20) as amended: the same for streams whose word ends are non-decreasing
\* as well.
EarlyExitSkipsNothingOrdered ==
    (Craft /\ pc = "candidates" /\ ValidStream /\ EndsNonDecreasing) =>
        /\ DurationsNonDecreasing
        /\ OneCandidatePerPairInRange

\* The loop stopped at a pair longer than max_duration with a further end
\* boundary still ahead, after it had emitted a candidate.
EarlyExitWitness ==
    /\ Craft
    /\ pc = "candidates"
    /\ ValidStream
    /\ EndsNonDecreasing
    /\ candidates /= <<>>
    /\ \E p, q \in BoundaryPairs :
          /\ p[1] = q[1]
          /\ p[2] < q[2]
          /\ PairDuration(p[1], p[2]) > max_duration

Executing == {j \in Jobs : future[j] = "running"}
Completed == {j \in Jobs : future[j] \in {"done", "failed"}}

\* (C18) With the thread-based worker at most one run_pipeline executes at
\* any time, jobs start in the order they were submitted, each after the one
\* before it has finished, and submit_job never waits for the job: each of
\* its two steps can be taken whatever the pool is doing.
OneJobAtATimeInOrder ==
    /\ Cardinality(Executing) <= 1
    /\ Len(started) <= Len(submitted)
    /\ \A i \in 1..Len(started) : started[i] = submitted[i]
    /\ \A i \in 1..(Len(started) - 1) : started[i] \in Completed
    /\ \A j \in Jobs :
          /\ caller[j] = "idle" => ENABLED SubmitToPool(j)
          /\ caller[j] = "submitted" => ENABLED AddDoneCallback(j)

\* Every job was submitted, not in the order of the job ids; one of them is
\* executing and another caller has returned with its job still in the queue.
OneJobAtATimeWitness ==
    /\ Len(submitted) = MaxJobs
    /\ submitted[1] /= 1
    /\ Executing /= {}
    /\ \E j \in Jobs : caller[j] = "returned" /\ future[j] = "pending"

\* The position of the last sentence-final word of ws, 0 when there is none.
LastFinal(ws) ==
    IF \E i \in 1..Len(ws) : SentenceEnd(ws[i].text)
    THEN CHOOSE i \in 1..Len(ws) :
             /\ SentenceEnd(ws[i].text)
             /\ \A k \in (i + 1)..Len(ws) : ~SentenceEnd(ws[k].text)
    ELSE 0

\* (C21) as claimed: a sliding-window candidate that holds a sentence-final
\* word ends on a sentence-final word, a window being emitted only when its
\* trimmed span meets min_duration.
WindowEndsOnSentence ==
    (Forge /\ Generated) =>
        \A c \in 1..Len(candidates) :
            LastFinal(candidates[c].words) /= 0
                => LastFinal(candidates[c].words) = Len(candidates[c].words)

\* (C21) as amended: a candidate that holds a sentence-final word ends on
\* the last such word, unless the words up to it span less than
\* min_duration; then the window is emitted as collected.
WindowEndsOnSentenceIfLongEnough ==
    (Forge /\ Generated) =>
        \A c \in 1..Len(candidates) :
            LET ws == candidates[c].words
                f == LastFinal(ws)
            IN  (f /= 0 /\ ws[f].end - ws[1].start >= min_duration) => f = Len(ws)

\* A candidate ends on a sentence-final word although the next word of the
\* stream lay inside its window too: the window was trimmed.
WindowTrimmedWitness ==
    /\ Forge
    /\ pc = "candidates"
    /\ \E c \in 1..Len(candidates) : \E i \in 1..(Len(words) - 1) :
          LET ws == candidates[c].words
          IN  /\ ws[Len(ws)] = words[i]
              /\ SentenceEnd(words[i].text)
              /\ ~SentenceEnd(words[i + 1].text)
              /\ words[i + 1].start >= ws[1].start
              /\ words[i + 1].end <= ws[1].start + max_duration
              /\ ws[1].start = words[1].start

\* Words per second of a candidate inside the conversational band [2.0, 3.5].
RateInBand(c) ==
    LET n == Len(c.words)
        d == c.words[n].end - c.words[1].start
    IN  d > 0 /\ 2 * d <= n /\ 2 * n <= 7 * d

\* The speech-rate value of candidate i exceeds that of candidate j.
RateValueHigher(i, j) ==
    IF Forge THEN RatLt(result.value[j], result.value[i])
    ELSE result.value[i] > result.value[j]

\* (C22) no candidate whose words-per-second lies outside the band [2.0, 3.5]
\* gets a higher speech-rate value than a candidate whose rate lies inside
\* it, in _speech_rate_score and in the word-density step of _score_clip.
RateHighestInBand ==
    pc = "rate" =>
        \A i, j \in 1..Len(candidates) :
            (RateInBand(candidates[i]) /\ ~RateInBand(candidates[j]))
                => ~RateValueHigher(j, i)

\* (C23) _keyword_score is the number of supplied keywords found in the
\* lower-cased segment text, compared in lower case, over the number of
\* supplied keywords; it never exceeds 1 and is 0, with nothing raised, for
\* an empty keyword list.
KeywordHits ==
    Cardinality({k \in 1..Len(keywords) :
        LET t == Lower(JoinText(candidates[1].words))
            kw == Lower(keywords[k])
        IN  \E a \in 1..Len(t), b \in 1..Len(t) : SubSeq(t, a, b) = kw})

KeywordScoreIsFractionFound ==
    pc = "keyword" =>
        /\ result.raised = ""
        /\ result.value.n * (IF keywords = <<>> THEN 1 ELSE Len(keywords))
               = KeywordHits * result.value.d
        /\ result.value.n <= result.value.d
        /\ keywords = <<>> => result.value.n = 0

\* A keyword written in capitals is found in a text written in lower case,
\* one keyword of two is missing, and the score is one half.
KeywordScoreWitness ==
    /\ pc = "keyword"
    /\ Len(keywords) = 2
    /\ keywords[1] = <<"G", "O">>
    /\ KeywordHits = 1
    /\ result.value = Rat(1, 2)

\* The weights are left out or name all four features (a mapping that
\* leaves one out is the subject of C9).
WeightsComplete == weights = NoWeights \/ DOMAIN weights = WeightNames

\* The scored word list is degenerate: every word has the same start and end.
ZeroDuration == words /= <<>> /\ words[Len(words)].end = words[1].start

\* (C24) scoring raises nothing and yields a number for every candidate,
\* the degenerate ones included: zero duration, a single word, words with
\* empty text, an empty keyword list; at zero duration the speech rate adds
\* nothing to the score.
ScoringNeverRaises ==
    (pc = "scored" /\ words /= <<>> /\ (Forge => WeightsComplete)) =>
        /\ result.raised = ""
        /\ result.value.d > 0
        /\ result.value.n >= 0
        /\ (Forge /\ ZeroDuration /\ keywords = <<>> /\ weights /= NoWeights
              /\ weights["boundary"] = RatInt(0))
               => result.value = RatInt(0)

\* score_segment scored a single word of empty text and zero duration with
\* no keywords and a rate weight that is not zero.
ScoringDegenerateWitness ==
    /\ pc = "scored"
    /\ Forge
    /\ Len(words) = 1
    /\ words[1].text = <<>>
    /\ ZeroDuration
    /\ keywords = <<>>
    /\ result.raised = ""
    /\ WeightsComplete
    /\ weights /= NoWeights
    /\ weights["rate"] /= RatInt(0)

\* The turns whose closed interval holds the midpoint of word w.
TurnsHolding(w) ==
    {k \in 1..Len(turns) :
        2 * turns[k].start <= w.start + w.end /\ w.start + w.end <= 2 * turns[k].end}

\* (C25) assign_speakers gives one record per word, in order, with text,
\* start and end as they were; the speaker is that of the first turn whose
\* closed interval holds the word's midpoint, SPEAKER_00 when there is none.
SpeakersAssignedByMidpoint ==
    pc = "assigned" =>
        /\ result.raised = ""
        /\ Len(result.value) = Len(words)
        /\ \A i \in 1..Len(words) :
            LET r == result.value[i]
                held == TurnsHolding(words[i])
            IN  /\ r.text = words[i].text
                /\ r.start = words[i].start
                /\ r.end = words[i].end
                /\ held = {} => r.speaker = "SPEAKER_00"
                /\ held /= {} =>
                       \E k \in held : /\ \A m \in held : k <= m
                                       /\ r.speaker = turns[k].speaker

\* Two turns by different speakers hold the midpoint of a word, the first
\* of them gave its speaker, and another word fell outside every turn.
SpeakersAssignedWitness ==
    /\ pc = "assigned"
    /\ Len(words) = 2
    /\ TurnsHolding(words[1]) = {1, 2}
    /\ turns[1].speaker = "SPEAKER_01"
    /\ turns[2].speaker = "SPEAKER_00"
    /\ words[1].start + words[1].end = 2 * turns[1].end
    /\ result.value[1].speaker = "SPEAKER_01"
    /\ TurnsHolding(words[2]) = {}
    /\ result.value[2].speaker = "SPEAKER_00"

\* (C26) the engine and the subtitle step leave the caller's word list as it
\* was: the same Word objects in the same order, each with its text, start
\* and end; and the candidate list handed to _remove_overlapping is after
\* the call what it was before it.
InputNeverMutated ==
    (pc \in {"candidates", "scored", "selected", "retimed"} /\ word_list /= <<>>) =>
        /\ Len(word_list) = Len(words)
        /\ \A i \in 1..Len(words) :
              /\ word_list[i] = i
              /\ heap[i] = words[i]
        /\ pc \in {"selected", "retimed"} => candidates = passed

\* The subtitles of a clip that starts after 0 were re-timed, and the list
\* _remove_overlapping returned is in another order than the one passed.
InputNeverMutatedWitness ==
    /\ pc = "retimed"
    /\ labelled /= <<>>
    /\ heap[top[num_clips].words[1].ref].start > 0
    /\ heap[labelled[1]].start = 0
    /\ Len(passed) >= 2
    /\ SortByScoreDesc(passed) /= passed

\* Job j was handed to the worker: it waits in the queue, runs or has run.
Dispatched(j) ==
    \/ \E i \in 1..Len(job_queue) : job_queue[i] = j
    \/ running = j
    \/ finished[j] /= ""

\* (C27) every job a job-creating request made has been dispatched once the
\* request is over, so that no request leaves a job pending for ever.
EveryCreatedJobDispatched ==
    \A j \in JobIds : request[j] /= "none" => Dispatched(j)

JobStatuses ==
    <<"pending", "downloading", "transcribing", "selecting", "rendering", "mixing_music",
      "completed">>

Terminal == {"completed", "failed"}

\* The status moves from a to b by the rules: it stays, takes the next step
\* of the sequence, leaves out mixing_music, or fails from a status that
\* is not terminal.
StatusStep(a, b) ==
    \/ a = b
    \/ \E k \in 1..(Len(JobStatuses) - 1) : a = JobStatuses[k] /\ b = JobStatuses[k + 1]
    \/ a = "rendering" /\ b = "completed"
    \/ a \notin Terminal /\ b = "failed"

\* (C28) the status of a job only moves forward through pending,
\* downloading, transcribing, selecting, rendering, mixing_music (or not),
\* completed, or to failed from a status that is not terminal; a completed
\* or failed job keeps its status; clips are listed only for a completed job.
StatusOnlyMovesForward ==
    [][\A j \in JobIds :
          /\ (store[j] /= NoFile /\ store'[j] /= NoFile)
                => StatusStep(store[j].status, store'[j].status)
          /\ (store'[j] /= NoFile /\ store'[j].clips /= <<>>)
                => store'[j].status = "completed"]_vars

\* A job went through mixing_music and is completed with its clips listed,
\* and another job failed.
StatusForwardWitness ==
    \E j, i \in JobIds :
        /\ store[j] /= NoFile
        /\ store[j].status = "completed"
        /\ Len(store[j].clips) = MaxSegs
        /\ params[j].music
        /\ store[i] /= NoFile
        /\ store[i].status = "failed"

\* (C29) once delete_job returned True for a job, get_job returns None for
\* it from then on, whatever update_job calls the worker makes meanwhile.
DeletedJobStaysDeleted ==
    \A j \in deleted : GetJob(store, j) = None

\* (C30) when select_clips returns no segments the job never shows a status
\* past transcribing other than failed and never lists clips; when
\* run_pipeline is over the work directory is gone and the job's record is
\* failed with the message 'No suitable clips found.'; the record is there
\* and run_pipeline returned unless the job was deleted meanwhile.
NoClipsFailsTheJob ==
    \A j \in JobIds :
        segs[j] = 0 =>
            /\ store[j] /= NoFile =>
                  /\ store[j].status \in {"transcribing", "failed"}
                  /\ store[j].clips = <<>>
            /\ finished[j] /= "" =>
                  /\ ~work_dir[j]
                  /\ store[j] /= NoFile =>
                        /\ store[j].status = "failed"
                        /\ store[j].message = "No suitable clips found."
                  /\ j \notin deleted =>
                        /\ store[j] /= NoFile
                        /\ finished[j] = "returned"

\* A job whose selection came back empty is over: failed with the message,
\* no clips, the work directory removed.
NoClipsWitness ==
    \E j \in JobIds :
        /\ segs[j] = 0
        /\ finished[j] = "returned"
        /\ j \notin deleted
        /\ store[j].status = "failed"
        /\ store[j].message = "No suitable clips found."
        /\ store[j].clips = <<>>
        /\ ~work_dir[j]

====
